---- MODULE Spec2Model ----
(***************************************************************************)
(* MediaCrawler-API-Server: the crawler adapter's job table                *)
(* (app/crawler/adapter.py), the per-task journal (app/core/logging.py),   *)
(* the cookies cache (app/core/cookies_manager.py) and the HTTP handlers   *)
(* that drive them (app/main.py).                                          *)
(* The login sessions of the LoginManager (app/core/login_manager.py) and   *)
(* their monitor tasks are explored by LoginSpec, the jobs by Spec.        *)
(*                                                                         *)
(* Scheduling is asyncio's: one thread, a coroutine runs from one await to *)
(* the next without interleaving, so every action below is one such run.   *)
(* asyncio.CancelledError is a BaseException (Python >= 3.8): the          *)
(* "except Exception" handlers of the adapter do not catch it.             *)
(***************************************************************************)
EXTENDS Integers, Sequences, FiniteSets, TLC

(* ------------------------------ bounds --------------------------------- *)
MaxUnits == 1         \* jobs submitted in one behaviour
MaxStdoutLines == 3   \* stdout lines one process emits
MaxStderrLines == 1   \* stderr lines one process emits
MaxStopCalls == 2     \* stop_task calls in one behaviour
Preloaded == 100      \* results of earlier, cancelled jobs held at the start
MaxLimit == 3         \* largest limit given to get_task_events
MaxCreateTime == 0    \* login sessions are created up to this second
MaxReplaced == 0      \* monitors that hold a session replaced in the table
MaxMonitors == 1      \* monitor tasks started in one behaviour
MaxTime == 5          \* seconds the clock runs
MaxSkew == 1          \* seconds around an instant at which the cookie cache is used

(* ------------------------- program constants --------------------------- *)
KeepResults == 100    \* cleanup_completed_tasks keeps this many results
MonitorTimeout == 300 \* _monitor_client_login: timeout = 300
PollInterval == 2     \* _monitor_client_login: await asyncio.sleep(2)
MaxAgeDays == 7       \* load_cookies(platform_str, max_age_days=7)
SecondsPerDay == 86400 \* 24 * 3600
MaxAge == MaxAgeDays * SecondsPerDay  \* the seven days in seconds

(* ------------------------------ helpers -------------------------------- *)
Range(s) == {s[i] : i \in 1..Len(s)}

None == <<>>
Some(x) == <<x>>

SetMax(S) == CHOOSE x \in S : \A y \in S : y <= x

(* ---------------------- text as token sequences ------------------------ *)
(* A text is a sequence of tokens: a word atom, a run of digits (one       *)
(* number), a blank, or a line break.  The regular expressions of the      *)
(* adapter are built from whole atoms, so matching on tokens is matching   *)
(* on characters.                                                          *)
W(s) == [k |-> "w", w |-> s, n |-> 0]
N(i) == [k |-> "n", w |-> "", n |-> i]
SP == [k |-> "sp", w |-> "", n |-> 0]
NL == [k |-> "nl", w |-> "", n |-> 0]

\* re.IGNORECASE on the ASCII atoms
Fold(w) ==
    CASE w \in {"Error", "ERROR", "error"} -> "error"
      [] w \in {"Exception", "EXCEPTION", "exception"} -> "exception"
      [] w \in {"Total", "TOTAL", "total"} -> "total"
      [] w \in {"Crawled", "crawled"} -> "crawled"
      [] w \in {"Items", "items"} -> "items"
      [] OTHER -> w

\* regular-expression elements
Lit(s) == [t |-> "lit", w |-> s]
Num == [t |-> "num", w |-> ""]       \* (\d+)
Ws == [t |-> "ws", w |-> ""]         \* \s*
ColWs == [t |-> "colws", w |-> ""]   \* [:\s]*
Lazy == [t |-> "lazy", w |-> ""]     \* .*?

IsSpace(tok) == tok.k \in {"sp", "nl"}

\* the first match of pat[p..] at toks[i..] in the backtracking order of re:
\* None, or Some([end, caps])
RECURSIVE MatchAt(_, _, _, _, _)
MatchAt(pat, p, toks, i, caps) ==
    IF p > Len(pat) THEN Some([end |-> i, caps |-> caps])
    ELSE LET e == pat[p]
             here == i <= Len(toks)
         IN CASE e.t = "lit" ->
                   IF here /\ toks[i].k = "w" /\ Fold(toks[i].w) = Fold(e.w)
                   THEN MatchAt(pat, p + 1, toks, i + 1, caps) ELSE None
              [] e.t = "num" ->
                   IF here /\ toks[i].k = "n"
                   THEN MatchAt(pat, p + 1, toks, i + 1, Append(caps, toks[i].n))
                   ELSE None
              [] e.t = "ws" ->
                   LET more == IF here /\ IsSpace(toks[i])
                               THEN MatchAt(pat, p, toks, i + 1, caps) ELSE None
                   IN IF more # None THEN more
                      ELSE MatchAt(pat, p + 1, toks, i, caps)
              [] e.t = "colws" ->
                   LET more == IF here /\ (IsSpace(toks[i]) \/ toks[i] = W(":"))
                               THEN MatchAt(pat, p, toks, i + 1, caps) ELSE None
                   IN IF more # None THEN more
                      ELSE MatchAt(pat, p + 1, toks, i, caps)
              [] e.t = "lazy" ->
                   LET now == MatchAt(pat, p + 1, toks, i, caps)
                   IN IF now # None THEN now
                      ELSE IF here /\ toks[i].k # "nl"
                           THEN MatchAt(pat, p, toks, i + 1, caps) ELSE None

\* re.search from position i on: None, or Some([end, caps]) of the leftmost match
RECURSIVE SearchFrom(_, _, _)
SearchFrom(pat, toks, i) ==
    IF i > Len(toks) + 1 THEN None
    ELSE LET m == MatchAt(pat, 1, toks, i, <<>>)
         IN IF m # None THEN Some([start |-> i, end |-> m[1].end, caps |-> m[1].caps])
            ELSE SearchFrom(pat, toks, i + 1)

Search(pat, toks) == SearchFrom(pat, toks, 1)

\* re.findall for a pattern with one group: the captured numbers, left to right
RECURSIVE FindAllFrom(_, _, _)
FindAllFrom(pat, toks, i) ==
    LET m == SearchFrom(pat, toks, i)
    IN IF m = None THEN <<>>
       ELSE <<m[1].caps[1]>> \o
            FindAllFrom(pat, toks, IF m[1].end > m[1].start THEN m[1].end
                                   ELSE m[1].start + 1)

FindAll(pat, toks) == FindAllFrom(pat, toks, 1)

\* "\n".join(lines)
RECURSIVE JoinLines(_)
JoinLines(lines) ==
    IF lines = <<>> THEN <<>>
    ELSE IF Len(lines) = 1 THEN lines[1]
    ELSE lines[1] \o <<NL>> \o JoinLines(Tail(lines))

(* --------------- _parse_data_count_from_output ------------------------- *)
\* The Chinese atoms are written in pinyin: gong 共, paqu 爬取, huoqu 获取,
\* tiao 条, shuju 数据, baocun 保存, wancheng 完成, ge 个.
CountPatterns ==
    << <<Lit("gong"), Lit("paqu"), Ws, Num, Ws, Lit("tiao")>>,
       <<Lit("huoqu"), Ws, Num, Ws, Lit("tiao"), Lit("shuju")>>,
       <<Lit("crawled"), Ws, Num, Ws, Lit("items")>>,
       <<Lit("total"), ColWs, Num>>,
       <<Lit("baocun"), Lazy, Num, Ws, Lit("tiao")>>,
       <<Lit("wancheng"), Lazy, Num, Ws, Lit("ge")>> >>

\* the first pattern that matches anywhere decides: the largest of its matches
RECURSIVE CountFrom(_, _)
CountFrom(k, output) ==
    IF k > Len(CountPatterns) THEN 0
    ELSE LET matches == FindAll(CountPatterns[k], output)
         IN IF matches # <<>> THEN SetMax(Range(matches))
            ELSE CountFrom(k + 1, output)

parse_data_count_from_output(output) == CountFrom(1, output)

(* ------------------------- TaskLogger (logging.py) --------------------- *)
\* Wall-clock fields (timestamp, last_update, estimated_remaining_time) are
\* left out of events and snapshots.  A message is its fixed text and the
\* values formatted into it, as tokens.
Msg(text, detail) == [text |-> text, detail |-> detail]

\* a percentage is a fraction num/den (the float the code computes)
Pct(n) == [num |-> n, den |-> 1]

InitialProgress ==
    [current_stage |-> "initializing", progress_percent |-> Pct(0),
     items_total |-> 0, items_completed |-> 0, items_failed |-> 0]

\* TaskLogger.__init__
NewTaskLogger(platform) ==
    [platform |-> platform, events |-> <<>>, progress |-> InitialProgress]

\* a variant of log_event that keeps only the newest event
log_event_keeps_newest(lg, event_type, message, error) ==
    [lg EXCEPT !.events =
        <<[event_type |-> event_type, message |-> message,
           error |-> error, progress |-> lg.progress]>>]

\* TaskLogger.log_event
log_event(lg, event_type, message, error) ==
    [lg EXCEPT !.events =
        Append(@, [event_type |-> event_type, message |-> message,
                   error |-> error, progress |-> lg.progress])]

\* TaskLogger.update_progress; an argument left out is None
update_progress(lg, current_stage, progress_percent, items_total, items_completed) ==
    LET p1 == IF current_stage # "" THEN [lg.progress EXCEPT !.current_stage = current_stage]
              ELSE lg.progress
        p2 == IF progress_percent # None
              THEN [p1 EXCEPT !.progress_percent = progress_percent[1]] ELSE p1
        p3 == IF items_total # None THEN [p2 EXCEPT !.items_total = items_total[1]] ELSE p2
        p4 == IF items_completed # None
              THEN [p3 EXCEPT !.items_completed = items_completed[1]] ELSE p3
    IN log_event([lg EXCEPT !.progress = p4], "task_progress",
                 Msg("progress update", <<W(p4.current_stage)>>), None)

\* the Python slice seq[start:], start negative counting from the end
PySliceFrom(seq, start) ==
    LET from == IF start < 0 THEN (IF Len(seq) + start < 0 THEN 0 ELSE Len(seq) + start)
                ELSE (IF start > Len(seq) THEN Len(seq) ELSE start)
    IN SubSeq(seq, from + 1, Len(seq))

\* TaskLogger.get_recent_events: self.events[-limit:] if len(self.events) > limit
get_recent_events(events, limit) ==
    IF Len(events) > limit THEN PySliceFrom(events, 0 - limit) ELSE events

\* LoggingManager.create_task_logger: the new logger replaces any logger
\* held for the id and starts with the task_created event
create_task_logger(platform) ==
    log_event(NewTaskLogger(platform), "task_created",
              Msg("task created", <<W(platform)>>), None)

\* LoggingManager.cleanup_task_logger (the logger itself is kept)
cleanup_task_logger(loggers, id) ==
    IF id \in DOMAIN loggers
    THEN [loggers EXCEPT ![id] =
             log_event(@, "task_completed", Msg("task logger cleaned up", <<>>), None)]
    ELSE loggers

(* --------------------- _parse_progress_from_line ----------------------- *)
\* kaishi 开始, denglu 登录, chenggong 成功, saoma 扫码, shouji 手机,
\* zhengzai 正在, di 第, ye 页, yi 已, cuowu 错误, shibai 失败, yichang 异常,
\* guanjianci 关键词, yonghu 用户, neirong 内容
login_patterns ==
    << [pat |-> <<Lit("kaishi"), Lit("denglu")>>, stage |-> "logging_in", percent |-> Some(Pct(20))],
       [pat |-> <<Lit("denglu"), Lit("chenggong")>>, stage |-> "logged_in", percent |-> Some(Pct(30))],
       [pat |-> <<Lit("saoma"), Lit("denglu")>>, stage |-> "qrcode_login", percent |-> Some(Pct(25))],
       [pat |-> <<Lit("shouji"), Lit("denglu")>>, stage |-> "phone_login", percent |-> Some(Pct(25))] >>

\* ratio marks the one pattern whose text contains "已爬取"
crawl_patterns ==
    << [pat |-> <<Lit("kaishi"), Lit("paqu")>>, stage |-> "crawling",
        percent |-> Some(Pct(40)), ratio |-> FALSE],
       [pat |-> <<Lit("zhengzai"), Lit("paqu"), Lit("di"), Ws, Num, Ws, Lit("ye")>>,
        stage |-> "crawling", percent |-> None, ratio |-> FALSE],
       [pat |-> <<Lit("yi"), Lit("paqu"), Ws, Num, Ws, Lit("/"), Ws, Num>>,
        stage |-> "crawling", percent |-> None, ratio |-> TRUE],
       [pat |-> <<Lit("paqu"), Lazy, Num, Ws, Lit("tiao"), Lazy, Lit("gong"), Ws, Num>>,
        stage |-> "crawling", percent |-> None, ratio |-> FALSE] >>

save_patterns ==
    << [pat |-> <<Lit("kaishi"), Lit("baocun")>>, stage |-> "saving", percent |-> Some(Pct(90))],
       [pat |-> <<Lit("baocun"), Lazy, Num, Ws, Lit("tiao")>>, stage |-> "saving",
        percent |-> Some(Pct(95))],
       [pat |-> <<Lit("baocun"), Lit("wancheng")>>, stage |-> "completed",
        percent |-> Some(Pct(100))] >>

\* a variant of error_patterns without the Chinese phrases
error_patterns_ascii_only == << <<Lit("Error")>>, <<Lit("Exception")>> >>

error_patterns ==
    << <<Lit("cuowu")>>, <<Lit("shibai")>>, <<Lit("yichang")>>, <<Lit("Error")>>,
       <<Lit("Exception")>> >>

important_patterns ==
    << <<Lit("kaishi")>>, <<Lit("wancheng")>>, <<Lit("chenggong")>>, <<Lit("guanjianci")>>,
       <<Lit("yonghu")>>, <<Lit("neirong")>> >>

\* index of the first entry of a pattern list that matches the line, or 0
RECURSIVE FirstMatch(_, _, _)
FirstMatch(pats, k, line) ==
    IF k > Len(pats) THEN 0
    ELSE IF Search(pats[k], line) # None THEN k
    ELSE FirstMatch(pats, k + 1, line)

PatsOf(entries) == [k \in 1..Len(entries) |-> entries[k].pat]

\* a variant of RatioPercent without the cap of 90
RatioPercent_uncapped(completed, total) ==
    [num |-> 40 * total + 50 * completed, den |-> total]

\* a variant of RatioPercent that starts the crawl stage at 0
RatioPercent_from_zero(completed, total) ==
    IF 50 * completed > 90 * total THEN Pct(90)
    ELSE [num |-> 50 * completed, den |-> total]

\* min(40.0 + (completed / total) * 50.0, 90.0), total > 0
RatioPercent(completed, total) ==
    IF 40 * total + 50 * completed > 90 * total THEN Pct(90)
    ELSE [num |-> 40 * total + 50 * completed, den |-> total]

parse_progress_from_line(line, lg) ==
    LET li == FirstMatch(PatsOf(login_patterns), 1, line)
        ci == FirstMatch(PatsOf(crawl_patterns), 1, line)
        si == FirstMatch(PatsOf(save_patterns), 1, line)
        ei == FirstMatch(error_patterns, 1, line)
        ii == FirstMatch(important_patterns, 1, line)
    IN IF li # 0
       THEN update_progress(lg, login_patterns[li].stage, login_patterns[li].percent,
                            None, None)
       ELSE IF ci # 0
       THEN LET e == crawl_patterns[ci]
                caps == Search(e.pat, line)[1].caps
            IN IF e.percent # None
               THEN update_progress(lg, e.stage, e.percent, None, None)
               ELSE IF e.ratio /\ Len(caps) >= 2 /\ caps[2] > 0
               THEN update_progress(lg, e.stage, Some(RatioPercent(caps[1], caps[2])),
                                    Some(caps[2]), Some(caps[1]))
               ELSE lg
       ELSE IF si # 0
       THEN LET e == save_patterns[si]
                caps == Search(e.pat, line)[1].caps
                first == update_progress(lg, e.stage, e.percent, None, None)
            IN IF Len(caps) >= 1
               THEN update_progress(first, e.stage, e.percent, None, Some(caps[1]))
               ELSE first
       ELSE IF ei # 0
       THEN log_event(lg, "crawler_error", Msg("MediaCrawler reported an error", line), None)
       ELSE IF ii # 0
       THEN log_event(lg, "task_progress", Msg("MediaCrawler", line), None)
       ELSE lg

(* ------------------------------ state ---------------------------------- *)
VARIABLES
    running_tasks,   \* MediaCrawlerAdapter.running_tasks: task id -> asyncio task (a unit)
    task_results,    \* MediaCrawlerAdapter.task_results: task id -> stored result
    task_loggers,    \* LoggingManager.task_loggers: task id -> TaskLogger
    units,           \* the asyncio tasks running _run_mediacrawler_process
    waiters,         \* per unit: stop_task calls suspended in "await task"
    cookies_cache,   \* CookiesManager's files: platform string -> None or Some(entry)
    reply,           \* what the last submission or stop_task call returned or raised
    sessions,        \* LoginManager.sessions: task id -> LoginSession object
    monitors,        \* the asyncio tasks running _monitor_client_login
    cookie_files,    \* the files logs/cookies_<task_id>_<platform>.json
    login_reply,     \* what the last LoginManager call returned
    now,             \* time.time(), in seconds
    channel          \* the connection served by websocket_login_status

vars == <<running_tasks, task_results, task_loggers, units, waiters, cookies_cache, reply,
          sessions, monitors, cookie_files, login_reply, now, channel>>

\* the state of the LoginManager, the clock, and the status connection
login_vars == <<sessions, monitors, cookie_files, login_reply, now, channel>>

\* the state of the MediaCrawlerAdapter and the LoggingManager
job_vars == <<running_tasks, task_results, task_loggers, units, waiters, reply>>

Units == 1..MaxUnits

\* no connection has been accepted
NoChannel == [pc |-> "none", task_id |-> "", session |-> <<>>, sent |-> "", wake_at |-> 0]

\* the connection keeps the session object it read for a send in progress
\* when the table stops holding that object; table gives the objects' values
Detached(ch, task_id, table) ==
    IF /\ ch.pc = "sent" /\ ch.task_id = task_id /\ ch.session = <<>>
       /\ task_id \in DOMAIN table
    THEN [ch EXCEPT !.session = <<table[task_id]>>]
    ELSE ch

(* ------------------------------ task ids -------------------------------- *)
\* Task ids are strings ordered by sorted(); an id is modelled by its rank.
HistoryIds == {10 * k : k \in 1..Preloaded}
\* what uuid.uuid4() can return: below, or above, everything held
FreshIds == {5} \cup {10 * Preloaded + 5 + k : k \in 0..(MaxUnits - 1)}
UnknownId == 7
TaskIds == HistoryIds \cup FreshIds \cup {UnknownId}

(* ------------------------- platforms (main.py, adapter.py) -------------- *)
\* PLATFORM_MAPPING keys are the PlatformType values
PLATFORM_MAPPING == {"xhs", "douyin", "bilibili", "kuaishou", "weibo", "tieba", "zhihu"}

CrawlerTaskType == {"search", "detail", "creator"}

\* _get_platform_string
get_platform_string(platform) ==
    CASE platform = "xhs" -> "xhs"
      [] platform = "douyin" -> "dy"
      [] platform = "bilibili" -> "bili"
      [] platform = "kuaishou" -> "ks"
      [] platform = "weibo" -> "wb"
      [] platform = "tieba" -> "tieba"
      [] platform = "zhihu" -> "zhihu"
      [] OTHER -> platform

PlatformStrings == {get_platform_string(p) : p \in PLATFORM_MAPPING}

\* truthiness of an Optional[List[str]]: neither None nor []
Truthy(opt) == opt # None /\ opt[1] # <<>>

(* --------------------------- CookiesManager ----------------------------- *)
\* a variant of save_cookies that keeps an entry the platform already has
save_cookies_keeps_first(cache, platform, cookies, task_id, write_ok) ==
    IF write_ok /\ cache[platform] = None
    THEN [cache EXCEPT ![platform] =
             Some([cookies |-> cookies, task_id |-> task_id, saved_time |-> now])]
    ELSE cache

\* save_cookies: the file of the platform is overwritten; FALSE when the write fails
save_cookies(cache, platform, cookies, task_id, write_ok) ==
    IF write_ok
    THEN [cache EXCEPT ![platform] =
             Some([cookies |-> cookies, task_id |-> task_id, saved_time |-> now])]
    ELSE cache

\* clear_cookies(platform)
clear_cookies(cache, platform) == [cache EXCEPT ![platform] = None]

\* a variant of load_cookies for which an entry of exactly max_age_days is expired
load_cookies_exclusive(cache, platform, max_age_days) ==
    IF platform \notin DOMAIN cache \/ cache[platform] = None THEN None
    ELSE LET e == cache[platform][1]
         IN IF now - e.saved_time >= max_age_days * SecondsPerDay THEN None
            ELSE IF e.cookies = "" THEN None
            ELSE Some(e.cookies)

\* load_cookies: None when there is no file, when the file is older than
\* max_age_days, or when it holds no cookies
load_cookies(cache, platform, max_age_days) ==
    IF platform \notin DOMAIN cache \/ cache[platform] = None THEN None
    ELSE LET e == cache[platform][1]
         IN IF now - e.saved_time > max_age_days * SecondsPerDay THEN None
            ELSE IF e.cookies = "" THEN None
            ELSE Some(e.cookies)

(* ------------------------ _build_crawler_command ------------------------ *)
\* sep.join(items), as the items with the separator between them
RECURSIVE Join(_, _)
Join(items, sep) ==
    IF Len(items) = 0 THEN <<>>
    ELSE IF Len(items) = 1 THEN items
    ELSE <<items[1], sep>> \o Join(Tail(items), sep)

\* str(b).lower()
LowerBool(b) == IF b THEN "true" ELSE "false"

\* the flag of the content ids of a detail job, per platform string
detail_flags ==
    [xhs |-> "--xhs_note_urls", dy |-> "--dy_ids", ks |-> "--ks_ids", bili |-> "--bili_ids",
     wb |-> "--weibo_ids", zhihu |-> "--zhihu_urls"]

\* the flag of the creator ids of a creator job, per platform string
creator_flags ==
    [xhs |-> "--xhs_creator_ids", dy |-> "--dy_creator_ids", ks |-> "--ks_creator_ids",
     bili |-> "--bili_creator_ids", wb |-> "--weibo_creator_ids",
     zhihu |-> "--zhihu_creator_urls", tieba |-> "--tieba_creator_urls"]

\* the arguments that carry the targets of the job: None, or Some(<<flag, value>>)
target_arguments(task, platform_str) ==
    CASE task.task_type = "search" ->
            IF task.keywords # None /\ task.keywords[1] # <<>>
            THEN Some(<<"--keywords", Join(task.keywords[1], ",")>>) ELSE None
      [] task.task_type = "detail" ->
            IF task.content_ids # None /\ task.content_ids[1] # <<>>
               /\ platform_str \in DOMAIN detail_flags
            THEN Some(<<detail_flags[platform_str], Join(task.content_ids[1], ";")>>)
            ELSE None
      [] task.task_type = "creator" ->
            IF task.creator_ids # None /\ task.creator_ids[1] # <<>>
               /\ platform_str \in DOMAIN creator_flags
            THEN Some(<<creator_flags[platform_str], Join(task.creator_ids[1], ";")>>)
            ELSE None
      [] OTHER -> None

\* MediaCrawlerAdapter._build_crawler_command: the arguments other than
\* --cookies; each value as the text the code formats it to
build_crawler_command(task) ==
    LET platform_str == get_platform_string(task.platform)
    IN [platform |-> platform_str, type |-> task.task_type,
        max_count |-> task.flags.max_count,
        max_comments |-> task.flags.max_comments,
        headless |-> LowerBool(task.flags.headless),
        enable_proxy |-> LowerBool(task.flags.enable_proxy),
        save_data_option |-> task.flags.save_data_option,
        target |-> target_arguments(task, platform_str)]

\* a variant of command_cookies that attaches entries up to a day older
command_cookies_day_older(task) ==
    IF task.clear_cookies THEN None
    ELSE load_cookies(cookies_cache, get_platform_string(task.platform), MaxAgeDays + 1)

\* the value _build_crawler_command gives to --cookies (None: no argument)
command_cookies(task) ==
    IF task.clear_cookies THEN None
    ELSE load_cookies(cookies_cache, get_platform_string(task.platform), MaxAgeDays)

(* ----------------------- _extract_and_save_cookies ---------------------- *)
\* what the newest <platform>_cookies_*.json under browser_data holds
Artifacts == {"no_file", "unreadable", "not_a_list", "no_name_value", "name_value_list"}

extract_and_save_cookies(cache, platform, artifact, task_id, write_ok) ==
    IF artifact = "name_value_list"
    THEN save_cookies(cache, get_platform_string(platform), "harvested", task_id, write_ok)
    ELSE cache

(* ----------------------- _execute_crawler_process ----------------------- *)
\* names bound inside _execute_crawler_process: its parameters, its locals and
\* the module's globals.  It has no name "task".
ExecuteScope ==
    {"self", "cmd", "task_logger", "process", "stdout_lines", "stderr_lines",
     "read_stdout", "read_stderr", "returncode", "stdout_text", "stderr_text",
     "data_count", "asyncio", "json", "Path", "logger", "cookies_manager",
     "MEDIACRAWLER_PATH", "TaskEventType"}

NameBound(name) == name \in ExecuteScope

\* the except branch of _execute_crawler_process
execute_exception(lg, text) ==
    [ret |-> [success |-> FALSE, error |-> Msg("execution exception", <<W(text)>>)],
     lg |-> log_event(lg, "crawler_error",
                      Msg("exception while executing MediaCrawler", <<W(text)>>),
                      Some(<<W(text)>>)),
     harvest |-> FALSE]

\* the code after process.wait(): the returned dict, the journal, and whether
\* the credential harvest ran
execute_after_exit(lg, returncode, stdout_lines, stderr_lines) ==
    LET stdout_text == JoinLines(stdout_lines)
        stderr_text == JoinLines(stderr_lines)
    IN IF returncode = 0
       THEN IF ~NameBound("task")
            THEN execute_exception(lg, "name 'task' is not defined")
            ELSE [ret |-> [success |-> TRUE,
                           data_count |-> parse_data_count_from_output(stdout_text),
                           stdout |-> stdout_text, stderr |-> stderr_text],
                  lg |-> log_event(lg, "task_progress",
                                   Msg("MediaCrawler executed successfully", <<>>), None),
                  harvest |-> TRUE]
       ELSE [ret |-> [success |-> FALSE,
                      error |-> Msg("process exit code", <<N(returncode)>> \o stderr_text),
                      stdout |-> stdout_text, stderr |-> stderr_text],
             lg |-> log_event(lg, "crawler_error",
                              Msg("MediaCrawler failed with exit code", <<N(returncode)>>),
                              Some(stderr_text)),
             harvest |-> FALSE]

(* ----------------------- _run_mediacrawler_process ---------------------- *)
\* the dict built in the except branch
ErrorResult(text) ==
    [kind |-> "dict",
     v |-> [success |-> FALSE,
            message |-> Msg("error while executing MediaCrawler", <<W(text)>>),
            data_count |-> 0, error_count |-> 1, data |-> <<>>]]

\* the except branch: journal the failure, store the error dict, then index
\* running_tasks[task_id], an asyncio.Task, which raises TypeError out of the unit
run_except(lg, text, registered) ==
    [lg |-> log_event(lg, "task_failed",
                      Msg("error while executing MediaCrawler", <<W(text)>>), None),
     result |-> ErrorResult(text),
     outcome |-> IF registered THEN "TypeError" ELSE "returned"]

\* the code after _execute_crawler_process returned ret
run_after_execute(lg, ret, registered) ==
    IF "message" \notin DOMAIN ret
    THEN run_except(lg, "'message'", registered)
    ELSE LET lg2 == log_event(lg, IF ret.success THEN "task_completed" ELSE "task_failed",
                              Msg("MediaCrawler execution", ret.message.detail), None)
         IN IF registered
            THEN run_except(lg2, "'Task' object does not support item assignment", registered)
            ELSE [lg |-> lg2, result |-> [kind |-> "dict", v |-> ret], outcome |-> "returned"]

(* ------------------------------ stop_task ------------------------------- *)
\* CrawlerResult(task_id, success=False, message="任务已被手动停止")
StoppedResult(id) ==
    [kind |-> "CrawlerResult",
     v |-> [task_id |-> id, success |-> FALSE,
            message |-> Msg("task was stopped manually", <<>>),
            data_count |-> 0, error_count |-> 0, data |-> None, errors |-> None]]

Remove(f, k) == [x \in DOMAIN f \ {k} |-> f[x]]

\* a job that was cancelled before its unit started
HistoryLogger ==
    log_event(create_task_logger("xhs"), "task_started",
              Msg("starting crawler task", <<W("xhs"), W("search")>>), None)

(* --------------------------- ConfigManager ------------------------------ *)
\* A configuration is a function from field names to values; a field whose
\* value is None in Python has the value None here.
Update(base, overrides) ==
    [k \in DOMAIN base \cup DOMAIN overrides |->
        IF k \in DOMAIN overrides THEN overrides[k] ELSE base[k]]

\* request_config.dict(exclude_unset=True, exclude_none=True); a field of a
\* request is None (unset or null) or Some(value)
SetFields(request) ==
    [k \in {f \in DOMAIN request : request[f] # None} |-> request[k][1]]

\* the fields of CrawlerConfigRequest, none of them set
EmptyConfigRequest ==
    [enable_proxy |-> None, proxy_provider |-> None, proxy_config |-> None,
     headless |-> None, user_agent |-> None, window_size |-> None,
     max_retries |-> None, delay_range |-> None, timeout |-> None,
     enable_comments |-> None, enable_sub_comments |-> None,
     max_comments |-> None, save_data_option |-> None]

\* base_config of build_crawler_config
BaseConfig(platform) ==
    [platform |-> platform, headless |-> TRUE, enable_proxy |-> FALSE,
     proxy_provider |-> None, proxy_config |-> None, user_agent |-> None,
     window_size |-> "1920,1080", max_retries |-> 3, delay_range |-> <<1, 3>>,
     timeout |-> 30, enable_comments |-> TRUE, enable_sub_comments |-> FALSE,
     max_comments |-> 50, save_data_option |-> "db"]

\* ConfigManager._init_platform_configs
platform_configs ==
    [xhs |-> [delay_range |-> <<2, 4>>, max_comments |-> 100, timeout |-> 45],
     douyin |-> [delay_range |-> <<1, 2>>, max_comments |-> 50, timeout |-> 30],
     bilibili |-> [delay_range |-> <<1, 3>>, max_comments |-> 80, timeout |-> 40],
     kuaishou |-> [delay_range |-> <<2, 3>>, max_comments |-> 60, timeout |-> 35],
     weibo |-> [delay_range |-> <<1, 2>>, max_comments |-> 50, timeout |-> 30],
     tieba |-> [delay_range |-> <<2, 4>>, max_comments |-> 100, timeout |-> 50],
     zhihu |-> [delay_range |-> <<1, 3>>, max_comments |-> 80, timeout |-> 40]]

\* attributes of Settings that _get_env_config_overrides could read: the
\* class declares none of the default_* names it asks for
SettingsAttributes == {"debug", "environment", "log_level", "save_data_option"}

env_mappings ==
    [default_headless |-> "headless", default_enable_proxy |-> "enable_proxy",
     default_proxy_provider |-> "proxy_provider", default_max_retries |-> "max_retries",
     default_timeout |-> "timeout"]

\* ConfigManager._get_env_config_overrides; settings gives the attributes' values
get_env_config_overrides(settings) ==
    LET found == {e \in DOMAIN env_mappings :
                     e \in SettingsAttributes /\ e \in DOMAIN settings /\ settings[e] # None}
    IN [k \in {env_mappings[e] : e \in found} |->
           settings[CHOOSE e \in found : env_mappings[e] = k]]

Settings == [debug |-> FALSE, environment |-> "development", log_level |-> "INFO",
             save_data_option |-> "db"]

\* ConfigManager.build_crawler_config; request_config is None or Some(request)
build_crawler_config(platform, request_config) ==
    LET base == BaseConfig(platform)
        plat == IF platform \in DOMAIN platform_configs
                THEN Update(base, platform_configs[platform]) ELSE base
        env == Update(plat, get_env_config_overrides(Settings))
    IN IF request_config # None THEN Update(env, SetFields(request_config[1])) ELSE env

\* the fields of a CrawlerTask that are not its targets, with their defaults
DefaultFlags ==
    [max_count |-> 100, max_comments |-> 50, start_page |-> 1, enable_proxy |-> FALSE,
     headless |-> TRUE, enable_comments |-> TRUE, enable_sub_comments |-> FALSE,
     save_data_option |-> "db"]

\* MediaCrawlerAdapter._create_temp_config: the value of task._final_config.
\* A CrawlerConfigRequest object is true whatever its fields.
create_temp_config(task) ==
    LET task_overrides ==
            [EmptyConfigRequest EXCEPT
                !.enable_proxy = Some(task.flags.enable_proxy),
                !.headless = Some(task.flags.headless),
                !.enable_comments = Some(task.flags.enable_comments),
                !.enable_sub_comments = Some(task.flags.enable_sub_comments),
                !.max_comments = Some(task.flags.max_comments),
                !.save_data_option = Some(task.flags.save_data_option)]
    IN build_crawler_config(task.platform,
                            IF task.config = None THEN Some(task_overrides) ELSE task.config)

(* ------------------------------ requests ------------------------------- *)
Put(f, k, v) == [x \in DOMAIN f \cup {k} |-> IF x = k THEN v ELSE f[x]]

CrawlerTask(task_id, platform, task_type, keywords, content_ids, creator_ids, clear) ==
    [task_id |-> task_id, platform |-> platform, task_type |-> task_type,
     keywords |-> keywords, content_ids |-> content_ids, creator_ids |-> creator_ids,
     clear_cookies |-> clear, flags |-> DefaultFlags, config |-> None]

\* bodies posted to /api/v1/tasks (CrawlerTaskRequest)
TaskRequests ==
    { CrawlerTask(0, "xhs", "search", Some(<<"a">>), None, None, TRUE),
      CrawlerTask(0, "xhs", "search", None, None, None, FALSE),
      CrawlerTask(0, "xhs", "detail", Some(<<"a">>), Some(<<>>), None, FALSE),
      CrawlerTask(0, "xhs", "creator", None, None, None, FALSE),
      CrawlerTask(0, "red", "search", Some(<<"a">>), None, None, FALSE),
      CrawlerTask(0, "xhs", "login", Some(<<"a">>), None, None, FALSE) }

\* keywords posted to /api/v1/xhs/search (QuickSearchRequest.keywords: List[str])
QuickKeywords == {<<>>, <<"a">>}

NoTask == CrawlerTask(0, "", "", None, None, None, FALSE)

NoUnit ==
    [pc |-> "none", task |-> NoTask, must_cancel |-> FALSE,
     stdout_lines |-> <<>>, stderr_lines |-> <<>>,
     stdout_eof |-> FALSE, stderr_eof |-> FALSE,
     returncode |-> -1, outcome |-> "", cmd_cookies |-> None, cmd |-> None,
     final_config |-> None]

\* asyncio.create_task(self._run_mediacrawler_process(task, task_logger))
NewUnit(task) == [NoUnit EXCEPT !.pc = "created", !.task = task]

\* what the process can print (stripped, non-empty lines)
StdoutLines ==
    { <<W("baocun"), SP, N(42), SP, W("tiao")>> }     \* 保存 42 条
StderrLines == { <<W("Traceback")>> }
ReturnCodes == {0, 1}

Init ==
    /\ running_tasks = [id \in {} |-> 0]
    /\ task_results = [id \in HistoryIds |-> StoppedResult(id)]
    /\ task_loggers = [id \in HistoryIds |-> HistoryLogger]
    /\ units = [u \in Units |-> NoUnit]
    /\ waiters = [u \in Units |-> 0]
    /\ cookies_cache = [p \in PlatformStrings |-> None]
    /\ reply = ""
    /\ sessions = [id \in {} |-> 0]
    /\ monitors = <<>>
    /\ cookie_files = [f \in {} |-> ""]
    /\ login_reply = [op |-> "", status |-> ""]
    /\ now = 0
    /\ channel = NoChannel

(* ------------------------------ submission ------------------------------ *)
HasFree == \E u \in Units : units[u].pc = "none"
FreeUnit == CHOOSE u \in Units : units[u].pc = "none" /\ \A v \in 1..(u - 1) : units[v].pc # "none"
UsedIds == {units[u].task.task_id : u \in {v \in Units : units[v].pc # "none"}}

\* MediaCrawlerAdapter.start_crawler_task
start_crawler_task(task) ==
    LET pstr == get_platform_string(task.platform)
        lg == log_event(create_task_logger(pstr), "task_started",
                        Msg("starting crawler task", <<W(pstr), W(task.task_type)>>), None)
    IN /\ task_loggers' = Put(task_loggers, task.task_id, lg)
       /\ units' = [units EXCEPT ![FreeUnit] = NewUnit(task)]
       /\ running_tasks' = Put(running_tasks, task.task_id, FreeUnit)
       /\ UNCHANGED <<task_results, waiters>>

\* POST /api/v1/tasks
Rejected(req) ==
    \/ req.platform \notin PLATFORM_MAPPING
    \/ req.task_type \notin CrawlerTaskType
    \/ req.task_type = "search" /\ ~Truthy(req.keywords)
    \/ req.task_type = "detail" /\ ~Truthy(req.content_ids)
    \/ req.task_type = "creator" /\ ~Truthy(req.creator_ids)

create_crawler_task(req) ==
    /\ IF Rejected(req)
       THEN /\ reply' = "HTTP 400"
            /\ UNCHANGED <<running_tasks, task_results, task_loggers, units, waiters,
                           cookies_cache>>
       ELSE /\ HasFree
            /\ \E id \in FreshIds \ UsedIds :
                  start_crawler_task([req EXCEPT !.task_id = id])
            /\ cookies_cache' = IF req.clear_cookies
                                THEN clear_cookies(cookies_cache, get_platform_string(req.platform))
                                ELSE cookies_cache
            /\ reply' = "task created"
    /\ UNCHANGED login_vars

\* POST /api/v1/xhs/search and /api/v1/douyin/search
quick_search(platform, keywords) ==
    /\ /\ HasFree
       /\ \E id \in FreshIds \ UsedIds :
             start_crawler_task(CrawlerTask(id, platform, "search", Some(keywords),
                                            None, None, FALSE))
       /\ reply' = "task created"
       /\ UNCHANGED cookies_cache
    /\ UNCHANGED login_vars

(* --------------------------- the execution unit ------------------------- *)
Pending(u) == units[u].pc \in {"created", "spawn", "read", "wait"}
Done(u) == units[u].pc = "done"
IdOf(u) == units[u].task.task_id
LoggerOf(u) == task_loggers[IdOf(u)]

\* the unit ends: its locals are gone, the task object keeps the outcome
Ended(unit, outcome) ==
    [unit EXCEPT !.pc = "done", !.outcome = outcome, !.stdout_lines = <<>>,
                 !.stderr_lines = <<>>, !.cmd_cookies = None, !.cmd = None,
                 !.final_config = None]

\* the unit ends through _run_mediacrawler_process's result handling
Finish(u, fin) ==
    /\ task_loggers' = [task_loggers EXCEPT ![IdOf(u)] = fin.lg]
    /\ task_results' = Put(task_results, IdOf(u), fin.result)
    /\ UNCHANGED <<running_tasks, waiters, reply>>

\* first run of the unit, up to "await asyncio.create_subprocess_exec":
\* two journal entries, _create_temp_config, _build_crawler_command;
\* cmd_cookies is the value of the command's --cookies argument
unit_start(u) ==
    /\ /\ units[u].pc = "created" /\ ~units[u].must_cancel
       /\ LET lg1 == log_event(LoggerOf(u), "task_progress",
                               Msg("preparing MediaCrawler", <<>>), None)
              lg2 == log_event(lg1, "task_progress", Msg("executing MediaCrawler", <<>>), None)
          IN task_loggers' = [task_loggers EXCEPT ![IdOf(u)] = lg2]
       /\ cookies_cache' = IF units[u].task.clear_cookies
                           THEN clear_cookies(cookies_cache,
                                              get_platform_string(units[u].task.platform))
                           ELSE cookies_cache
       /\ units' = [units EXCEPT ![u].pc = "spawn",
                                 ![u].final_config = Some(create_temp_config(units[u].task)),
                                 ![u].cmd = Some(build_crawler_command(units[u].task)),
                                 ![u].cmd_cookies = command_cookies(units[u].task)]
       /\ UNCHANGED <<running_tasks, task_results, waiters, reply>>
    /\ UNCHANGED login_vars

\* create_subprocess_exec returns the process
spawn_ok(u) ==
    /\ /\ units[u].pc = "spawn" /\ ~units[u].must_cancel
       /\ units' = [units EXCEPT ![u].pc = "read"]
       /\ UNCHANGED <<running_tasks, task_results, task_loggers, waiters, cookies_cache, reply>>
    /\ UNCHANGED login_vars

\* create_subprocess_exec raises
spawn_fails(u) ==
    /\ /\ units[u].pc = "spawn" /\ ~units[u].must_cancel
       /\ LET ex == execute_exception(LoggerOf(u), "spawn failed")
              fin == run_after_execute(ex.lg, ex.ret, IdOf(u) \in DOMAIN running_tasks)
          IN /\ Finish(u, fin)
             /\ units' = [units EXCEPT ![u] = Ended(@, fin.outcome)]
       /\ UNCHANGED cookies_cache
    /\ UNCHANGED login_vars

\* a variant of AfterRead that goes on once either stream is at end of file
AfterRead_either(unit) ==
    IF unit.stdout_eof \/ unit.stderr_eof THEN [unit EXCEPT !.pc = "wait"] ELSE unit

\* gather() is over once both streams are at end of file
AfterRead(unit) ==
    IF unit.stdout_eof /\ unit.stderr_eof THEN [unit EXCEPT !.pc = "wait"] ELSE unit

\* read_stdout: one line
read_stdout(u, line) ==
    /\ /\ units[u].pc = "read" /\ ~units[u].must_cancel /\ ~units[u].stdout_eof
       /\ Len(units[u].stdout_lines) < MaxStdoutLines
       /\ units' = [units EXCEPT ![u].stdout_lines = Append(@, line)]
       /\ task_loggers' = [task_loggers EXCEPT ![IdOf(u)] = parse_progress_from_line(line, @)]
       /\ UNCHANGED <<running_tasks, task_results, waiters, cookies_cache, reply>>
    /\ UNCHANGED login_vars

\* read_stdout: end of file
stdout_closed(u) ==
    /\ /\ units[u].pc = "read" /\ ~units[u].must_cancel /\ ~units[u].stdout_eof
       /\ units' = [units EXCEPT ![u] = AfterRead([@ EXCEPT !.stdout_eof = TRUE])]
       /\ UNCHANGED <<running_tasks, task_results, task_loggers, waiters, cookies_cache, reply>>
    /\ UNCHANGED login_vars

\* read_stderr: one line
read_stderr(u, line) ==
    /\ /\ units[u].pc = "read" /\ ~units[u].must_cancel /\ ~units[u].stderr_eof
       /\ Len(units[u].stderr_lines) < MaxStderrLines
       /\ units' = [units EXCEPT ![u].stderr_lines = Append(@, line)]
       /\ task_loggers' = [task_loggers EXCEPT ![IdOf(u)] =
                              log_event(@, "crawler_error", Msg("MediaCrawler stderr", line), None)]
       /\ UNCHANGED <<running_tasks, task_results, waiters, cookies_cache, reply>>
    /\ UNCHANGED login_vars

\* read_stderr: end of file
stderr_closed(u) ==
    /\ /\ units[u].pc = "read" /\ ~units[u].must_cancel /\ ~units[u].stderr_eof
       /\ units' = [units EXCEPT ![u] = AfterRead([@ EXCEPT !.stderr_eof = TRUE])]
       /\ UNCHANGED <<running_tasks, task_results, task_loggers, waiters, cookies_cache, reply>>
    /\ UNCHANGED login_vars

\* process.wait() returns: the rest of _execute_crawler_process and of
\* _run_mediacrawler_process run without another await
process_exit(u, returncode, artifact, write_ok) ==
    /\ /\ units[u].pc = "wait" /\ ~units[u].must_cancel
       /\ LET ex == execute_after_exit(LoggerOf(u), returncode, units[u].stdout_lines,
                                       units[u].stderr_lines)
              fin == run_after_execute(ex.lg, ex.ret, IdOf(u) \in DOMAIN running_tasks)
          IN /\ Finish(u, fin)
             /\ units' = [units EXCEPT ![u] = Ended([@ EXCEPT !.returncode = returncode],
                                                     fin.outcome)]
             /\ cookies_cache' =
                   IF ex.harvest
                   THEN extract_and_save_cookies(cookies_cache, units[u].task.platform,
                                                 artifact, IdOf(u), write_ok)
                   ELSE cookies_cache
    /\ UNCHANGED login_vars

\* a variant of cancelled in which "except Exception" catches the
\* CancelledError (as it would were CancelledError an Exception): the failure
\* handler journals and stores an error result
cancelled_as_failure(u) ==
    /\ /\ Pending(u) /\ units[u].must_cancel
       /\ LET fin == run_except(LoggerOf(u), "CancelledError", IdOf(u) \in DOMAIN running_tasks)
          IN /\ Finish(u, fin)
             /\ units' = [units EXCEPT ![u] = Ended(@, fin.outcome)]
       /\ UNCHANGED cookies_cache
    /\ UNCHANGED login_vars

\* the CancelledError of task.cancel() is thrown into the unit at its await
\* (or before its first line) and ends it
cancelled(u) ==
    /\ /\ Pending(u) /\ units[u].must_cancel
       /\ units' = [units EXCEPT ![u] = Ended(@, "cancelled")]
       /\ UNCHANGED <<running_tasks, task_results, task_loggers, waiters, cookies_cache, reply>>
    /\ UNCHANGED login_vars

(* ------------------------------ stop_task ------------------------------- *)
\* what stop_task returns or raises after "await task" is over, the task
\* having ended with outcome: a TypeError of the unit is raised out of
\* stop_task; a CancelledError is swallowed
stop_returns(id, outcome) ==
    IF outcome = "TypeError" THEN "TypeError"
    ELSE IF id \in DOMAIN running_tasks THEN "True"
    ELSE "KeyError"          \* del self.running_tasks[task_id]

\* a variant of stop_after_await in which every exception of the awaited
\* task is swallowed, so the stopped result is stored whatever the outcome
stop_after_await_any(id, outcome) ==
    /\ task_results' = Put(task_results, id, StoppedResult(id))
    /\ running_tasks' = IF id \in DOMAIN running_tasks
                        THEN Remove(running_tasks, id) ELSE running_tasks

\* the rest of stop_task: unless the await raised, the stopped result is
\* stored and the table entry deleted
stop_after_await(id, outcome) ==
    IF outcome = "TypeError"
    THEN UNCHANGED <<running_tasks, task_results>>
    ELSE /\ task_results' = Put(task_results, id, StoppedResult(id))
         /\ running_tasks' = IF id \in DOMAIN running_tasks
                             THEN Remove(running_tasks, id) ELSE running_tasks

\* MediaCrawlerAdapter.stop_task up to its await, or to its end when the
\* awaited task is already done (awaiting a finished task does not suspend)
stop_task(id) ==
    /\ IF id \notin DOMAIN running_tasks
       THEN /\ reply' = "False"
            /\ UNCHANGED <<running_tasks, task_results, task_loggers, units, waiters,
                           cookies_cache>>
       ELSE LET u == running_tasks[id]
            IN IF units[u].pc # "done"
               THEN /\ waiters[u] < MaxStopCalls
                    /\ units' = [units EXCEPT ![u].must_cancel = TRUE]
                    /\ waiters' = [waiters EXCEPT ![u] = @ + 1]
                    /\ UNCHANGED <<running_tasks, task_results, task_loggers, cookies_cache,
                                   reply>>
               ELSE /\ stop_after_await(id, units[u].outcome)
                    /\ reply' = stop_returns(id, units[u].outcome)
                    /\ UNCHANGED <<task_loggers, units, waiters, cookies_cache>>
    /\ UNCHANGED login_vars

\* a suspended stop_task resumes once its task is done
stop_task_resumes(u) ==
    /\ /\ waiters[u] > 0 /\ Done(u)
       /\ waiters' = [waiters EXCEPT ![u] = @ - 1]
       /\ stop_after_await(IdOf(u), units[u].outcome)
       /\ reply' = stop_returns(IdOf(u), units[u].outcome)
       /\ UNCHANGED <<task_loggers, units, cookies_cache>>
    /\ UNCHANGED login_vars

(* ----------------------- cleanup_completed_tasks ------------------------ *)
\* sorted(task_results.items(), key=id)[:-KeepResults]: the n smallest ids
RECURSIVE Smallest(_, _)
Smallest(ids, n) ==
    IF n <= 0 \/ ids = {} THEN {}
    ELSE LET m == CHOOSE x \in ids : \A y \in ids : x <= y
         IN {m} \cup Smallest(ids \ {m}, n - 1)

TasksToRemove(results) ==
    IF Cardinality(DOMAIN results) > KeepResults
    THEN Smallest(DOMAIN results, Cardinality(DOMAIN results) - KeepResults)
    ELSE {}

RECURSIVE CleanLoggers(_, _)
CleanLoggers(loggers, ids) ==
    IF ids = {} THEN loggers
    ELSE LET id == CHOOSE x \in ids : TRUE
         IN CleanLoggers(cleanup_task_logger(loggers, id), ids \ {id})

cleanup_completed_tasks ==
    /\ LET gone == TasksToRemove(task_results)
       IN /\ task_results' = [id \in DOMAIN task_results \ gone |-> task_results[id]]
          /\ task_loggers' = CleanLoggers(task_loggers, gone)
          /\ UNCHANGED <<running_tasks, units, waiters, cookies_cache, reply>>
    /\ UNCHANGED login_vars

(* ----------------------------- LoginManager ----------------------------- *)
LoginType == {"cookie", "qrcode", "phone"}
TerminalStatus == {"success", "failed", "timeout"}

LoginIds == {"s1"}
UnknownLoginId == "s0"
\* timeout values given to create_login_session
Timeouts == {2}

\* LoginSession.__init__ and the timeout set by create_login_session;
\* browser stands for browser, browser_context and page, web_session for the
\* value of the web_session cookie in the browser context (0: none)
NewLoginSession(task_id, platform, login_type, timeout) ==
    [task_id |-> task_id, platform |-> platform, login_type |-> login_type,
     status |-> "pending", start_time |-> now, timeout |-> timeout,
     cookies_data |-> None, browser |-> FALSE, web_session |-> 0]

\* LoginSession.is_expired
is_expired(session) == now - session.start_time > session.timeout

\* LoginSession.update_status (no caller passes data)
update_status(session, status) == [session EXCEPT !.status = status]

\* LoginResponse: the operation and the status it reports
LoginResponse(op, status) == [op |-> op, status |-> status]

\* nothing returned yet
NoLoginResponse == LoginResponse("", "")

HasSession(id) == id \in DOMAIN sessions

\* the LoginSession a monitor task holds: the one in the table, or one that
\* create_login_session has replaced in the table
InTable(mon) == mon.session = None
MonitoredSession(mon) == IF InTable(mon) THEN sessions[mon.task_id] ELSE mon.session[1]

\* LoginManager.create_login_session: the new object takes the id's place in
\* the table; a running monitor keeps the object it was started with
put_login_session(task_id, platform, login_type, timeout) ==
    /\ sessions' = Put(sessions, task_id,
                       NewLoginSession(task_id, platform, login_type, timeout))
    /\ monitors' = [m \in DOMAIN monitors |->
                      IF /\ monitors[m].task_id = task_id /\ InTable(monitors[m])
                         /\ monitors[m].pc # "done"
                      THEN [monitors[m] EXCEPT !.session = Some(sessions[task_id])]
                      ELSE monitors[m]]
    /\ channel' = Detached(channel, task_id, sessions)
    /\ login_reply' = LoginResponse("create", "created")
    /\ UNCHANGED <<cookie_files, now, cookies_cache>>
    /\ UNCHANGED job_vars

\* create_login_session while no more than MaxReplaced running monitors hold
\* the session the id has
create_login_session(task_id, platform, login_type, timeout) ==
    /\ now <= MaxCreateTime
    /\ Cardinality({m \in DOMAIN monitors :
                        /\ InTable(monitors[m]) /\ monitors[m].task_id = task_id
                        /\ monitors[m].pc # "done"})
          <= MaxReplaced
    /\ put_login_session(task_id, platform, login_type, timeout)

\* create_login_session for an id whose session a running monitor holds
create_login_session_again(task_id, platform, login_type, timeout) ==
    /\ now <= MaxCreateTime
    /\ \E m \in DOMAIN monitors :
          /\ InTable(monitors[m]) /\ monitors[m].task_id = task_id
          /\ monitors[m].pc # "done"
    /\ put_login_session(task_id, platform, login_type, timeout)

\* bodies posted to /api/v1/login/create-session
CreateLoginSessionRequests ==
    { [task_id |-> id, platform |-> "xhs", login_type |-> t, timeout |-> to]
        : id \in LoginIds, t \in LoginType \cup {"sms"}, to \in Timeouts }

\* POST /api/v1/login/create-session
http_create_login_session(req) ==
    IF req.login_type \notin LoginType
    THEN /\ login_reply' = LoginResponse("create", "HTTP 400")
         /\ UNCHANGED <<sessions, monitors, cookie_files, now, cookies_cache>>
         /\ UNCHANGED <<job_vars, channel>>
    ELSE IF HasSession(req.task_id)
    THEN /\ login_reply' = LoginResponse("create", "exists")
         /\ UNCHANGED <<sessions, monitors, cookie_files, now, cookies_cache>>
         /\ UNCHANGED <<job_vars, channel>>
    ELSE create_login_session(req.task_id, req.platform, req.login_type, req.timeout)

\* asyncio.create_task(self._monitor_client_login(session))
NewMonitor(task_id) ==
    [task_id |-> task_id, session |-> None, pc |-> "start",
     start_time |-> 0, initial |-> 0, wake_at |-> 0]

\* a variant of start_dispatch that treats a phone session as a qrcode session
start_dispatch_phone_as_qrcode(login_type, nav_ok) ==
    IF login_type = "cookie" THEN "success"
    ELSE IF nav_ok THEN "qrcode_generated" ELSE "failed"

\* the status a start ends in after the browser was initialized;
\* _navigate_to_login_page raises when nav_ok is false
start_dispatch(login_type, nav_ok) ==
    CASE login_type = "cookie" -> "success"
      [] login_type = "qrcode" -> IF nav_ok THEN "qrcode_generated" ELSE "failed"
      [] login_type = "phone" -> IF nav_ok THEN "phone_input_required" ELSE "failed"
      [] OTHER -> "failed"

\* LoginManager.start_login_process
start_login_process(task_id, init_ok, nav_ok) ==
    /\ IF ~HasSession(task_id)
       THEN /\ login_reply' = LoginResponse("start", "failed")
            /\ UNCHANGED <<sessions, monitors>>
       ELSE LET session == sessions[task_id]
                status == IF init_ok THEN start_dispatch(session.login_type, nav_ok)
                          ELSE "failed"
                started == init_ok /\ status = "qrcode_generated"
            IN /\ started => Len(monitors) < MaxMonitors
               /\ sessions' =
                     [sessions EXCEPT ![task_id] =
                         IF init_ok
                         THEN [update_status(session, status)
                                  EXCEPT !.browser = TRUE, !.web_session = 0]
                         ELSE update_status(session, status)]
               /\ monitors' = IF started THEN Append(monitors, NewMonitor(task_id))
                              ELSE monitors
               /\ login_reply' = LoginResponse("start", status)
    /\ UNCHANGED <<cookie_files, now, cookies_cache>>
    /\ UNCHANGED <<job_vars, channel>>

\* cookies posted to /api/v1/login/save-cookies
PostedCookies == {"a=1"}

InputTypes == {"phone", "verification_code", "password"}

\* what the two driver calls of an input handler and _wait_for_login_success
\* do: all succeed, the first call raises, the second raises, the wait is false
DriverOutcomes == {<<TRUE, TRUE, TRUE>>, <<FALSE, TRUE, TRUE>>, <<TRUE, FALSE, TRUE>>,
                   <<TRUE, TRUE, FALSE>>}

\* a variant of input_status that does not look at _wait_for_login_success
input_status_ignores_wait(session, input_type, d1_ok, d2_ok, wait_ok) ==
    IF session.browser /\ d1_ok /\ d2_ok
    THEN (IF input_type = "phone" THEN "verification_code_required" ELSE "success")
    ELSE "failed"

\* a variant of input_status in which a failing driver call goes unnoticed
input_status_unguarded(session, input_type, d1_ok, d2_ok, wait_ok) ==
    IF input_type = "phone" THEN "verification_code_required"
    ELSE IF wait_ok THEN "success" ELSE "failed"

\* _handle_phone_input and _handle_verification_code_input: a driver call
\* without a page raises; _wait_for_login_success then returns False
input_status(session, input_type, d1_ok, d2_ok, wait_ok) ==
    IF input_type = "phone"
    THEN IF session.browser /\ d1_ok /\ d2_ok THEN "verification_code_required" ELSE "failed"
    ELSE IF session.browser /\ d1_ok /\ d2_ok /\ wait_ok THEN "success" ELSE "failed"

\* LoginManager.handle_login_input
handle_login_input(task_id, input_type, d1_ok, d2_ok, wait_ok) ==
    /\ IF ~HasSession(task_id)
       THEN /\ login_reply' = LoginResponse("input", "failed")
            /\ UNCHANGED sessions
       ELSE IF input_type \notin {"phone", "verification_code"}
       THEN /\ login_reply' = LoginResponse("input", "failed")
            /\ UNCHANGED sessions
       ELSE LET status == input_status(sessions[task_id], input_type, d1_ok, d2_ok, wait_ok)
            IN /\ sessions' = [sessions EXCEPT ![task_id] = update_status(@, status)]
               /\ login_reply' = LoginResponse("input", status)
    /\ UNCHANGED <<monitors, cookie_files, now, cookies_cache>>
    /\ UNCHANGED <<job_vars, channel>>

\* LoginManager.get_login_status
get_login_status(task_id) ==
    /\ IF ~HasSession(task_id)
       THEN /\ login_reply' = LoginResponse("status", "failed")
            /\ UNCHANGED sessions
       ELSE LET session == IF is_expired(sessions[task_id])
                           THEN update_status(sessions[task_id], "timeout")
                           ELSE sessions[task_id]
            IN /\ sessions' = [sessions EXCEPT ![task_id] = session]
               /\ login_reply' = LoginResponse("status", session.status)
    /\ UNCHANGED <<monitors, cookie_files, now, cookies_cache>>
    /\ UNCHANGED <<job_vars, channel>>

\* the body of LoginManager.save_login_cookies for a known id: the session
\* of the id gets the cookies and status success, and the file
\* logs/cookies_<task_id>_<platform>.json is written unless the write fails
saved_login_cookies(session, cookies) ==
    update_status([session EXCEPT !.cookies_data = Some(cookies)], "success")

CookieFile(task_id, platform) == <<"logs/cookies", task_id, platform>>

written_cookie_files(task_id, cookies, write_ok) ==
    IF write_ok
    THEN Put(cookie_files, CookieFile(task_id, sessions[task_id].platform), cookies)
    ELSE cookie_files

\* LoginManager.save_login_cookies
save_login_cookies(task_id, cookies, write_ok) ==
    /\ IF ~HasSession(task_id)
       THEN /\ login_reply' = LoginResponse("save", "False")
            /\ UNCHANGED <<sessions, cookie_files>>
       ELSE /\ sessions' = [sessions EXCEPT ![task_id] = saved_login_cookies(@, cookies)]
            /\ cookie_files' = written_cookie_files(task_id, cookies, write_ok)
            /\ login_reply' = LoginResponse("save", IF write_ok THEN "True" ELSE "False")
    /\ UNCHANGED <<monitors, now, cookies_cache>>
    /\ UNCHANGED <<job_vars, channel>>

\* LoginSession.cleanup: page, browser context and browser are closed and set
\* to None
cleanup(session) == [session EXCEPT !.browser = FALSE, !.web_session = 0]

\* LoginManager.remove_login_session: the session is cleaned up and deleted
\* from the table; a monitor keeps the object it was started with
remove_login_session(task_id) ==
    /\ IF ~HasSession(task_id)
       THEN UNCHANGED <<sessions, monitors>>
       ELSE /\ sessions' = [id \in DOMAIN sessions \ {task_id} |-> sessions[id]]
            /\ monitors' = [m \in DOMAIN monitors |->
                              IF monitors[m].task_id = task_id /\ InTable(monitors[m])
                              THEN [monitors[m] EXCEPT
                                       !.session = Some(cleanup(sessions[task_id]))]
                              ELSE monitors[m]]
    /\ channel' = Detached(channel, task_id,
                           [id \in DOMAIN sessions |-> cleanup(sessions[id])])
    /\ login_reply' = LoginResponse("remove", "None")
    /\ UNCHANGED <<cookie_files, now, cookies_cache>>
    /\ UNCHANGED job_vars

\* the user logs in in the browser opened for a session: the web_session
\* cookie changes (m = 0: the session in the table, else the one monitor m holds)
browser_login(task_id, m) ==
    /\ IF m = 0
       THEN /\ HasSession(task_id)
            /\ sessions[task_id].browser /\ sessions[task_id].web_session = 0
            /\ sessions' = [sessions EXCEPT ![task_id].web_session = 1]
            /\ UNCHANGED monitors
       ELSE /\ m \in 1..Len(monitors) /\ ~InTable(monitors[m])
            /\ monitors[m].task_id = task_id /\ monitors[m].pc # "done"
            /\ MonitoredSession(monitors[m]).web_session = 0
            /\ monitors' = [monitors EXCEPT ![m].session =
                               Some([MonitoredSession(monitors[m]) EXCEPT !.web_session = 1])]
            /\ UNCHANGED sessions
    /\ UNCHANGED <<cookie_files, login_reply, now, cookies_cache>>
    /\ UNCHANGED <<job_vars, channel>>

\* _extract_cookies: "name=value" of the cookies of the browser context
ExtractedCookies == "web_session=1"

\* the code after the while loop
monitor_exit(session) ==
    IF session.status \notin {"success", "failed"}
    THEN update_status(session, "timeout") ELSE session

\* a variant of monitor_sets that always writes the session into the table
monitor_sets_in_table(m, s, table) ==
    /\ sessions' = Put(table, monitors[m].task_id, s)
    /\ monitors' = [monitors EXCEPT ![m].pc = "done"]

\* the monitor ends and its own session becomes s: in the table, or in the
\* monitor when the table no longer holds it
monitor_sets(m, s, table) ==
    IF InTable(monitors[m])
    THEN /\ sessions' = [table EXCEPT ![monitors[m].task_id] = s]
         /\ monitors' = [monitors EXCEPT ![m].pc = "done"]
    ELSE /\ sessions' = table
         /\ monitors' = [monitors EXCEPT ![m].pc = "done", ![m].session = Some(s)]

\* _monitor_client_login up to its first poll: the start time and the
\* initial web_session; without a browser context the read raises and the
\* except branch sets failed
monitor_begin(m) ==
    /\ m \in 1..Len(monitors) /\ monitors[m].pc = "start"
    /\ IF MonitoredSession(monitors[m]).browser
       THEN /\ monitors' = [monitors EXCEPT ![m] =
                               [@ EXCEPT !.pc = "loop", !.start_time = now, !.wake_at = now,
                                         !.initial = MonitoredSession(monitors[m]).web_session]]
            /\ UNCHANGED sessions
       ELSE monitor_sets(m, update_status(MonitoredSession(monitors[m]), "failed"), sessions)
    /\ UNCHANGED <<cookie_files, login_reply, now, cookies_cache>>
    /\ UNCHANGED <<job_vars, channel>>

\* one turn of the while loop of _monitor_client_login, and the code after
\* the loop when the loop ends
monitor_poll(m, write_ok) ==
    /\ m \in 1..Len(monitors) /\ monitors[m].pc = "loop" /\ now >= monitors[m].wake_at
    /\ LET mon == monitors[m]
           session == MonitoredSession(mon)
           leaves == \/ ~(now - mon.start_time < MonitorTimeout)
                     \/ session.task_id \notin DOMAIN sessions
                     \/ session.status \in TerminalStatus
           changed == session.web_session # 0 /\ session.web_session # mon.initial
       IN IF leaves
          THEN /\ monitor_sets(m, monitor_exit(session), sessions)
               /\ UNCHANGED cookie_files
          ELSE IF ~session.browser
          THEN /\ monitor_sets(m, update_status(session, "failed"), sessions)
               /\ UNCHANGED cookie_files
          ELSE IF changed
          THEN /\ monitor_sets(m, saved_login_cookies(session, ExtractedCookies),
                               [sessions EXCEPT ![session.task_id] =
                                   saved_login_cookies(@, ExtractedCookies)])
               /\ cookie_files' = written_cookie_files(session.task_id, ExtractedCookies,
                                                       write_ok)
          ELSE /\ monitors' = [monitors EXCEPT ![m].wake_at = now + PollInterval]
               /\ UNCHANGED <<sessions, cookie_files>>
    /\ UNCHANGED <<login_reply, now, cookies_cache>>
    /\ UNCHANGED <<job_vars, channel>>

\* a variant of tick in which the passing second also marks every expired
\* session as timed out
tick_expires ==
    /\ now < MaxTime
    /\ \A m \in 1..Len(monitors) :
          /\ monitors[m].pc # "start"
          /\ monitors[m].pc = "loop" => now < monitors[m].wake_at
    /\ now' = now + 1
    /\ sessions' = [id \in DOMAIN sessions |->
                       IF is_expired(sessions[id]) THEN update_status(sessions[id], "timeout")
                       ELSE sessions[id]]
    /\ UNCHANGED <<monitors, cookie_files, login_reply, cookies_cache>>
    /\ UNCHANGED <<job_vars, channel>>

\* a second passes; a monitor that is due runs first
tick ==
    /\ now < MaxTime
    /\ \A m \in 1..Len(monitors) :
          /\ monitors[m].pc # "start"
          /\ monitors[m].pc = "loop" => now < monitors[m].wake_at
    /\ now' = now + 1
    /\ UNCHANGED <<sessions, monitors, cookie_files, login_reply, cookies_cache>>
    /\ UNCHANGED <<job_vars, channel>>

(* ------------------------------- queries -------------------------------- *)
\* the ids a client asks about: every id uuid4 can give, one never given, and
\* two of the jobs held from before
QueryIds == FreshIds \cup {UnknownId, 10, 10 * Preloaded}

\* ids that were submitted at some time
Submitted == HistoryIds \cup UsedIds

\* MediaCrawlerAdapter.get_task_status: status and done (the progress part is
\* read from the logger).  A stored dict has no attribute "success".
get_task_status(id) ==
    IF id \in DOMAIN running_tasks
    THEN [status |-> IF Done(running_tasks[id]) THEN "completed" ELSE "running",
          done |-> Done(running_tasks[id])]
    ELSE IF id \in DOMAIN task_results
    THEN IF task_results[id].kind = "CrawlerResult"
         THEN [status |-> "completed", done |-> TRUE]
         ELSE [status |-> "AttributeError", done |-> FALSE]
    ELSE [status |-> "not_found", done |-> FALSE]

\* MediaCrawlerAdapter.get_task_result: self.task_results.get(task_id)
get_task_result(id) ==
    IF id \in DOMAIN task_results THEN Some(task_results[id]) ELSE None

\* the limits a client gives
Limits == 0..MaxLimit

\* LoggingManager.get_task_events, as MediaCrawlerAdapter.get_task_events
\* and GET /api/v1/tasks/{task_id}/events return it
get_task_events(id, limit) ==
    IF id \in DOMAIN task_loggers
    THEN get_recent_events(task_loggers[id].events, limit)
    ELSE <<>>

(* ------------------------------ behaviours ------------------------------ *)
Next ==
    \/ \E req \in TaskRequests : create_crawler_task(req)
    \/ \E kw \in QuickKeywords : quick_search("xhs", kw)
    \/ \E u \in Units : unit_start(u)
    \/ \E u \in Units : spawn_ok(u)
    \/ \E u \in Units : spawn_fails(u)
    \/ \E u \in Units, line \in StdoutLines : read_stdout(u, line)
    \/ \E u \in Units : stdout_closed(u)
    \/ \E u \in Units, line \in StderrLines : read_stderr(u, line)
    \/ \E u \in Units : stderr_closed(u)
    \/ \E u \in Units, rc \in ReturnCodes, art \in Artifacts, ok \in BOOLEAN :
          process_exit(u, rc, art, ok)
    \/ \E u \in Units : cancelled(u)
    \/ \E id \in FreshIds \cup {UnknownId, 10} : stop_task(id)
    \/ \E u \in Units : stop_task_resumes(u)
    \/ cleanup_completed_tasks

Spec == Init /\ [][Next]_vars

\* the LoginManager alone: no job is held or submitted
LoginInit ==
    /\ running_tasks = [id \in {} |-> 0]
    /\ task_results = [id \in {} |-> 0]
    /\ task_loggers = [id \in {} |-> 0]
    /\ units = [u \in Units |-> NoUnit]
    /\ waiters = [u \in Units |-> 0]
    /\ cookies_cache = [p \in PlatformStrings |-> None]
    /\ reply = ""
    /\ sessions = [id \in {} |-> 0]
    /\ monitors = <<>>
    /\ cookie_files = [f \in {} |-> ""]
    /\ login_reply = NoLoginResponse
    /\ now = 0
    /\ channel = NoChannel

LoginNext ==
    \/ \E req \in CreateLoginSessionRequests : http_create_login_session(req)
    \/ \E id \in LoginIds, t \in LoginType, to \in Timeouts :
          create_login_session(id, "xhs", t, to)
    \/ \E id \in LoginIds \cup {UnknownLoginId}, init_ok \in BOOLEAN, nav_ok \in BOOLEAN :
          start_login_process(id, init_ok, nav_ok)
    \/ \E id \in LoginIds \cup {UnknownLoginId}, it \in InputTypes, d \in DriverOutcomes :
          handle_login_input(id, it, d[1], d[2], d[3])
    \/ \E id \in LoginIds \cup {UnknownLoginId} : get_login_status(id)
    \/ \E id \in LoginIds \cup {UnknownLoginId}, c \in PostedCookies, ok \in BOOLEAN :
          save_login_cookies(id, c, ok)
    \/ \E id \in LoginIds, m \in 0..MaxMonitors : browser_login(id, m)
    \/ \E m \in 1..MaxMonitors : monitor_begin(m)
    \/ \E m \in 1..MaxMonitors, ok \in BOOLEAN : monitor_poll(m, ok)
    \/ tick

LoginSpec == LoginInit /\ [][LoginNext]_vars

\* qrcode sessions that are created, started, monitored and removed
QrcodeRequests == {req \in CreateLoginSessionRequests : req.login_type = "qrcode"}

RemoveNext ==
    \/ \E req \in QrcodeRequests : http_create_login_session(req)
    \/ \E id \in LoginIds, init_ok \in BOOLEAN, nav_ok \in BOOLEAN :
          start_login_process(id, init_ok, nav_ok)
    \/ \E id \in LoginIds \cup {UnknownLoginId} : remove_login_session(id)
    \/ \E id \in LoginIds, m \in 0..MaxMonitors : browser_login(id, m)
    \/ \E m \in 1..MaxMonitors : monitor_begin(m)
    \/ \E m \in 1..MaxMonitors, ok \in BOOLEAN : monitor_poll(m, ok)
    \/ tick

RemoveSpec == LoginInit /\ [][RemoveNext]_vars

\* qrcode sessions that are created and started and whose id is given to a
\* new session, by a second create or after a removal, while the monitor runs
ReplaceNext ==
    \/ \E req \in QrcodeRequests : http_create_login_session(req)
    \/ \E id \in LoginIds, t \in LoginType, to \in Timeouts :
          create_login_session_again(id, "xhs", t, to)
    \/ \E id \in LoginIds, init_ok \in BOOLEAN, nav_ok \in BOOLEAN :
          start_login_process(id, init_ok, nav_ok)
    \/ \E id \in LoginIds : remove_login_session(id)
    \/ \E id \in LoginIds, m \in 0..MaxMonitors : browser_login(id, m)
    \/ \E m \in 1..MaxMonitors : monitor_begin(m)
    \/ \E m \in 1..MaxMonitors, ok \in BOOLEAN : monitor_poll(m, ok)
    \/ tick

ReplaceSpec == LoginInit /\ [][ReplaceNext]_vars

(* --------------------------- the cookie routes -------------------------- *)
\* platform strings and cookies posted to /api/v1/cookies
CookiePlatforms == {"xhs", "dy"}
SavedBlobs == {"a=1; b=2", "c=3", ""}

\* POST /api/v1/cookies
http_save_cookies(platform, cookies, write_ok) ==
    /\ cookies_cache' = save_cookies(cookies_cache, platform, cookies, None, write_ok)
    /\ reply' = IF write_ok THEN "cookies saved" ELSE "cookies not saved"
    /\ UNCHANGED <<running_tasks, task_results, task_loggers, units, waiters>>
    /\ UNCHANGED login_vars

\* DELETE /api/v1/cookies/{platform}
clear_platform_cookies(platform) ==
    /\ cookies_cache' = clear_cookies(cookies_cache, platform)
    /\ reply' = "cookies cleared"
    /\ UNCHANGED <<running_tasks, task_results, task_loggers, units, waiters>>
    /\ UNCHANGED login_vars

\* DELETE /api/v1/cookies: clear_cookies() unlinks every *_cookies.json
clear_all_cookies ==
    /\ cookies_cache' = [p \in DOMAIN cookies_cache |-> None]
    /\ reply' = "all cookies cleared"
    /\ UNCHANGED <<running_tasks, task_results, task_loggers, units, waiters>>
    /\ UNCHANGED login_vars

\* the instants at which the cache is used: the first seconds, and the seconds
\* around max_age_days later
ClockValues == (0..MaxSkew) \cup ((MaxAge - MaxSkew)..(MaxAge + MaxSkew))

\* time passes between two requests
clock_advances(t) ==
    /\ t > now
    /\ now' = t
    /\ UNCHANGED <<sessions, monitors, cookie_files, login_reply, cookies_cache>>
    /\ UNCHANGED <<job_vars, channel>>

\* the cookie cache, its routes, and the jobs launched from it
CookieNext ==
    \/ \E p \in CookiePlatforms, c \in SavedBlobs, ok \in BOOLEAN : http_save_cookies(p, c, ok)
    \/ \E p \in CookiePlatforms : clear_platform_cookies(p)
    \/ clear_all_cookies
    \/ \E t \in ClockValues : clock_advances(t)
    \/ \E req \in TaskRequests : create_crawler_task(req)
    \/ \E kw \in QuickKeywords : quick_search("xhs", kw) \/ quick_search("douyin", kw)
    \/ \E u \in Units : unit_start(u)

CookieSpec == LoginInit /\ [][CookieNext]_vars

(* ======================== properties of the job life ===================== *)
\* C1: a job whose process exited with code 0 has a stored result with
\* success = true.
C1_ExitZeroIsSuccess ==
    \A u \in Units :
        (Done(u) /\ units[u].returncode = 0 /\ IdOf(u) \in DOMAIN task_results)
            => task_results[IdOf(u)].v.success = TRUE

\* a job has exited with code 0 and its result is stored
C1_ExitZeroReached ==
    \E u \in Units :
        Done(u) /\ units[u].returncode = 0 /\ IdOf(u) \in DOMAIN task_results

\* C2: on the exit-0, non-zero-exit and spawn-failure paths the execution unit
\* ends without an unhandled exception, and the result it stored has the
\* fields task_id, success, message, data_count and error_count, with
\* success = false on the two failure paths.
C2_UnitEndsWithWellFormedResult ==
    \A u \in Units :
        (Done(u) /\ units[u].outcome # "cancelled")
            => /\ units[u].outcome = "returned"
               /\ IdOf(u) \in DOMAIN task_results
                     => /\ {"task_id", "success", "message", "data_count", "error_count"}
                              \subseteq DOMAIN task_results[IdOf(u)].v
                        /\ units[u].returncode # 0 => ~task_results[IdOf(u)].v.success

\* the unit of a job has ended on one of the three paths
C2_UnitEnded ==
    \E u \in Units : Done(u) /\ units[u].outcome # "cancelled"

\* C3: when the process exits with a non-zero code, the stored result has
\* success = false and its message holds the exit code and the stderr text.
C3_NonZeroExitMessage ==
    [][\A u \in Units :
          (units[u].pc = "wait" /\ units'[u].pc = "done" /\ units'[u].returncode > 0)
              => LET r == task_results'[IdOf(u)].v
                     d == r.message.detail
                     err == JoinLines(units[u].stderr_lines)
                 IN /\ r.success = FALSE
                    /\ \E i \in 1..Len(d) : d[i] = N(units'[u].returncode)
                    /\ \E i \in 0..Len(d) :
                          i + Len(err) <= Len(d) /\ SubSeq(d, i + 1, i + Len(err)) = err]_vars

\* a process exited with a non-zero code after writing to stderr
C3_NonZeroExitReached ==
    \E u \in Units : Done(u) /\ units[u].returncode > 0 /\ units[u].stderr_eof

\* C4: when the process exits with code 0, the stored result's data_count is
\* the count parsed from its stdout: 42 for "保存 42 条", 0 when nothing matches.
C4_ItemCountFromStdout ==
    [][\A u \in Units :
          (units[u].pc = "wait" /\ units'[u].pc = "done" /\ units'[u].returncode = 0)
              => task_results'[IdOf(u)].v.data_count =
                    parse_data_count_from_output(JoinLines(units[u].stdout_lines))]_vars

\* a process has printed a line with a count and reached the end of its output
C4_CountLineRead ==
    \E u \in Units :
        /\ units[u].pc = "wait"
        /\ parse_data_count_from_output(JoinLines(units[u].stdout_lines)) = 42

\* C5: whatever happens to the credential harvest that follows an exit with
\* code 0 (no artifact, unreadable, wrong shape, write failure, an error while
\* invoking it), the job is not failed: no task_failed event is journalled and
\* the stored result has success = true.
C5_HarvestNeverFailsJob ==
    [][\A u \in Units :
          (units[u].pc = "wait" /\ units'[u].pc = "done" /\ units'[u].returncode = 0)
              => /\ task_results'[IdOf(u)].v.success
                 /\ \A i \in (Len(LoggerOf(u).events) + 1)..Len(task_loggers'[IdOf(u)].events) :
                       task_loggers'[IdOf(u)].events[i].event_type # "task_failed"]_vars

\* C6: every job that exists has the targets of its type (search: keywords,
\* detail: content_ids, creator: creator_ids); a submission without them is
\* rejected and creates no job, journal or execution unit.
C6_TargetsMatchJobType ==
    \A u \in Units :
        units[u].pc # "none"
            => LET t == units[u].task
               IN /\ t.task_type = "search" => Truthy(t.keywords)
                  /\ t.task_type = "detail" => Truthy(t.content_ids)
                  /\ t.task_type = "creator" => Truthy(t.creator_ids)

\* a search job was submitted with keywords
C6_SearchJobSubmitted ==
    \E u \in Units :
        units[u].pc # "none" /\ units[u].task.task_type = "search"
                             /\ Truthy(units[u].task.keywords)

\* C7: stop_task on an id that is unknown, or whose execution unit has already
\* finished, returns False and leaves the tables as they are.
C7_CancelOfFinishedReturnsFalse ==
    [][\A id \in QueryIds :
          (/\ id \in DOMAIN running_tasks => Done(running_tasks[id])
           /\ stop_task(id))
              => reply' = "False" /\ UNCHANGED <<running_tasks, task_results>>]_vars

\* stop_task was called for a job whose unit had ended, and has returned or raised
C7_CancelOfFinishedReached ==
    \E u \in Units :
        Done(u) /\ units[u].outcome # "cancelled" /\ reply \in {"False", "True", "TypeError"}

\* C8: once stop_task has cancelled a unit that has not ended (before its
\* process starts, or at an await while it runs), the unit appends nothing
\* more to the job's journal and ends cancelled; and stop_task, when it goes
\* on, stores a result with success = false and the manual-stop message.
C8_CancelYieldsStoppedResult ==
    [][\A u \in Units :
          /\ (units[u].must_cancel /\ Pending(u))
                => /\ task_loggers'[IdOf(u)].events = LoggerOf(u).events
                   /\ units'[u].pc # units[u].pc => units'[u].outcome = "cancelled"
          /\ (Done(u) /\ units[u].outcome = "cancelled" /\ waiters'[u] < waiters[u])
                => /\ IdOf(u) \in DOMAIN task_results'
                   /\ task_results'[IdOf(u)].v.success = FALSE
                   /\ task_results'[IdOf(u)].v.message = Msg("task was stopped manually", <<>>)]_vars

\* a job was cancelled before its unit ran a line (its journal holds only the
\* two entries of the submission) and its stopped result is stored
C8_CancelledBeforeStart ==
    \E u \in Units :
        /\ Done(u) /\ units[u].outcome = "cancelled"
        /\ Len(LoggerOf(u).events) = 2
        /\ IdOf(u) \in DOMAIN task_results
        /\ task_results[IdOf(u)] = StoppedResult(IdOf(u))
        /\ reply = "True"

C10_StatusAndResultAgree ==
    \A id \in QueryIds :
        LET st == get_task_status(id)
            unended == \E u \in Units : Pending(u) /\ IdOf(u) = id
        IN /\ st.status = "not_found" <=> id \notin Submitted
           /\ st.status = "running" <=> unended
           /\ st.done <=> (id \in Submitted /\ ~unended)
           /\ st.status = "running" => get_task_result(id) = None
           /\ st.status = "completed" => get_task_result(id) # None

\* a job's unit has ended and its status is asked
C10_CompletedReached ==
    \E u \in Units : Done(u) /\ get_task_status(IdOf(u)).status = "completed"

(* ========================= properties of the journal ===================== *)
\* C11: for every limit >= 0, get_task_events returns at most limit events,
\* and they are the newest events of the journal in append order; with
\* limit = 0 it returns none.
C11_EventsAreBoundedSuffix ==
    \A id \in QueryIds, limit \in Limits :
        LET ev == IF id \in DOMAIN task_loggers THEN task_loggers[id].events ELSE <<>>
            r == get_task_events(id, limit)
        IN /\ Len(r) <= limit
           /\ Len(r) <= Len(ev)
           /\ r = SubSeq(ev, Len(ev) - Len(r) + 1, Len(ev))
           /\ Len(r) = IF Len(ev) < limit THEN Len(ev) ELSE limit

\* a journal holds more events than the largest limit asked
C11_LongJournal ==
    \E u \in Units : units[u].pc # "none" /\ Len(LoggerOf(u).events) > MaxLimit

CreateSessionStep(id) ==
    \/ \E t \in LoginType, to \in Timeouts : create_login_session(id, "xhs", t, to)
    \/ \E req \in CreateLoginSessionRequests :
          req.task_id = id /\ http_create_login_session(req)

\* C13: a create for an id that already has a login session is rejected and
\* leaves the existing session as it was.
C13_SecondCreateRejected ==
    [][\A id \in LoginIds :
          (HasSession(id) /\ CreateSessionStep(id)) =>
              /\ login_reply'.status # "created"
              /\ sessions'[id] = sessions[id]]_vars

\* a create for an id that has a started session was answered
C13_SecondCreateMade ==
    \E id \in LoginIds :
        /\ HasSession(id) /\ sessions[id].status # "pending"
        /\ login_reply.op = "create"

\* C14: success, failed and timeout are terminal: no step other than a create
\* for the id changes the status of a session that is in one of them.
C14_TerminalStatusStays ==
    [][\A id \in DOMAIN sessions :
          (sessions[id].status \in TerminalStatus /\ ~CreateSessionStep(id)) =>
              sessions'[id].status = sessions[id].status]_vars

\* a session in a terminal status has been asked for its status
C14_TerminalAndRead ==
    \E id \in DOMAIN sessions :
        /\ sessions[id].status \in TerminalStatus
        /\ login_reply.op = "status"

\* C15: a status read of an expired session reports timeout and leaves the
\* stored session, its status included, as it was.
C15_ExpiredReadIsPure ==
    [][\A id \in LoginIds :
          (HasSession(id) /\ is_expired(sessions[id]) /\ get_login_status(id)) =>
              /\ login_reply'.status = "timeout"
              /\ sessions'[id] = sessions[id]]_vars

\* an expired session was read and timeout was reported
C15_ExpiredRead ==
    \E id \in DOMAIN sessions :
        /\ is_expired(sessions[id])
        /\ login_reply = LoginResponse("status", "timeout")

\* C16: a monitor whose session's web_session never changed does not go on
\* polling once the session's own timeout has elapsed: no monitor sleeps after
\* a poll made later than start_time + timeout.
C16_MonitorHonoursSessionTimeout ==
    \A m \in 1..Len(monitors) :
        LET mon == monitors[m]
            session == MonitoredSession(mon)
        IN (/\ InTable(mon) /\ mon.pc = "loop"
            /\ session.login_type = "qrcode" /\ session.web_session = 0
            /\ now - session.start_time > session.timeout + PollInterval)
           => now >= mon.wake_at

\* a monitor has polled a qrcode session whose web_session has not changed
C16_MonitorPolled ==
    \E m \in 1..Len(monitors) :
        /\ InTable(monitors[m]) /\ monitors[m].pc = "loop"
        /\ monitors[m].wake_at > monitors[m].start_time
        /\ sessions[monitors[m].task_id].login_type = "qrcode"
        /\ sessions[monitors[m].task_id].web_session = 0

\* the task a later job for the platform is built from
LaterTask(platform) ==
    CrawlerTask(1, platform, "search", Some(<<"k">>), None, None, FALSE)

\* C17: when a monitor has stored the cookies it extracted in a session, the
\* cookie cache returns them for the session's platform within seven days
\* and a later job for the platform is launched with them.
C17_DetectedCookiesAreCached ==
    \A id \in DOMAIN sessions :
        sessions[id].cookies_data = Some(ExtractedCookies) =>
            /\ load_cookies(cookies_cache, sessions[id].platform, MaxAgeDays)
                  = Some(ExtractedCookies)
            /\ command_cookies(LaterTask(sessions[id].platform)) = Some(ExtractedCookies)

\* a monitor has detected the login and the cookie file of the session holds
\* the extracted cookies
C17_LoginDetected ==
    \E id \in DOMAIN sessions :
        /\ sessions[id].cookies_data = Some(ExtractedCookies)
        /\ sessions[id].status = "success"
        /\ CookieFile(id, sessions[id].platform) \in DOMAIN cookie_files
        /\ cookie_files[CookieFile(id, sessions[id].platform)] = ExtractedCookies

\* what a start of the session of id has done when it dispatched by mode
StartDispatched(id) ==
    LET login_type == sessions[id].login_type
        status == sessions'[id].status
    IN /\ login_type = "cookie" => status = "success" /\ monitors' = monitors
       /\ login_type = "qrcode" =>
             /\ status = "qrcode_generated"
             /\ monitors' = Append(monitors, NewMonitor(id))
       /\ login_type = "phone" =>
             status = "phone_input_required" /\ monitors' = monitors

\* a start for an id without a session reports failed and creates nothing
StartOfUnknown ==
    \A id \in LoginIds \cup {UnknownLoginId}, init_ok \in BOOLEAN, nav_ok \in BOOLEAN :
        (~HasSession(id) /\ start_login_process(id, init_ok, nav_ok)) =>
            /\ login_reply' = LoginResponse("start", "failed")
            /\ sessions' = sessions /\ monitors' = monitors

C19_InputTransitions ==
    [][\A id \in LoginIds, it \in InputTypes, d \in DriverOutcomes :
          (HasSession(id) /\ handle_login_input(id, it, d[1], d[2], d[3])) =>
              LET calls_ok == sessions[id].browser /\ d[1] /\ d[2]
                  status == sessions'[id].status
              IN /\ (it = "phone" /\ calls_ok) => status = "verification_code_required"
                 /\ (it = "verification_code" /\ calls_ok /\ d[3]) => status = "success"
                 /\ (it = "verification_code" /\ calls_ok /\ ~d[3]) => status = "failed"
                 /\ (it \in {"phone", "verification_code"} /\ ~calls_ok) =>
                       status = "failed"
                 /\ it \notin {"phone", "verification_code"} =>
                       /\ login_reply' = LoginResponse("input", "failed")
                       /\ sessions' = sessions]_vars

\* a verification code was accepted on a phone session
C19_CodeAccepted ==
    \E id \in DOMAIN sessions :
        /\ sessions[id].login_type = "phone" /\ sessions[id].status = "success"
        /\ login_reply = LoginResponse("input", "success")

\* C20: a qrcode or cookie session never has status phone_input_required or
\* verification_code_required.
C20_PhoneStatusesOnPhonePathOnly ==
    \A id \in DOMAIN sessions :
        sessions[id].login_type \in {"qrcode", "cookie"} =>
            sessions[id].status \notin {"phone_input_required", "verification_code_required"}

\* a phone session waits for its verification code
C20_PhoneAwaitsCode ==
    \E id \in DOMAIN sessions :
        /\ sessions[id].login_type = "phone"
        /\ sessions[id].status = "verification_code_required"

\* a step of monitor m
MonitorStep(m) == monitor_begin(m) \/ \E write_ok \in BOOLEAN : monitor_poll(m, write_ok)

\* C21: a removal deletes the session from the table and leaves its monitors
\* with a session whose browser is closed; a monitor of a removed session
\* changes neither the table nor the cookie files nor the cookie cache, and
\* ends at its next poll when it finds the id absent.
C21_RemovalStopsMonitor ==
    [][/\ \A id \in LoginIds :
             (HasSession(id) /\ remove_login_session(id)) =>
                 /\ id \notin DOMAIN sessions'
                 /\ \A m \in DOMAIN monitors :
                       (monitors[m].task_id = id /\ InTable(monitors[m])) =>
                           /\ ~InTable(monitors'[m])
                           /\ ~MonitoredSession(monitors[m])'.browser
       /\ \A m \in 1..Len(monitors) :
             (~InTable(monitors[m]) /\ MonitorStep(m)) =>
                 /\ sessions' = sessions
                 /\ cookie_files' = cookie_files
                 /\ cookies_cache' = cookies_cache
                 /\ (monitors[m].pc = "loop" /\ monitors[m].task_id \notin DOMAIN sessions)
                       => monitors'[m].pc = "done"]_vars

\* a monitor has found its session removed and has ended
C21_MonitorSawRemoval ==
    \E m \in 1..Len(monitors) :
        /\ ~InTable(monitors[m]) /\ monitors[m].pc = "done"
        /\ monitors[m].task_id \notin DOMAIN sessions
        /\ MonitoredSession(monitors[m]).status = "timeout"

\* max_age_days values given to load_cookies
AgeBounds == {0, MaxAgeDays}

\* C22 as stated: load returns nothing when now - saved_time exceeds the
\* bound and the saved cookies otherwise, an age equal to the bound included.
C22_LoadByAge ==
    \A p \in CookiePlatforms, d \in AgeBounds :
        cookies_cache[p] # None =>
            load_cookies(cookies_cache, p, d) =
                IF now - cookies_cache[p][1].saved_time > d * SecondsPerDay THEN None
                ELSE Some(cookies_cache[p][1].cookies)

\* C22 amended: the same for saved cookies that are not empty; an entry whose
\* cookies are the empty string is loaded as nothing at every age.
C22_LoadByAgeNonEmpty ==
    \A p \in CookiePlatforms, d \in AgeBounds :
        cookies_cache[p] # None =>
            load_cookies(cookies_cache, p, d) =
                IF now - cookies_cache[p][1].saved_time > d * SecondsPerDay THEN None
                ELSE IF cookies_cache[p][1].cookies = "" THEN None
                ELSE Some(cookies_cache[p][1].cookies)

\* an entry with cookies is exactly max_age_days old, and one is a second older
C22_AtTheBoundary ==
    \E p, q \in CookiePlatforms :
        /\ cookies_cache[p] # None /\ cookies_cache[p][1].cookies # ""
        /\ now - cookies_cache[p][1].saved_time = MaxAge
        /\ cookies_cache[q] # None /\ cookies_cache[q][1].cookies # ""
        /\ now - cookies_cache[q][1].saved_time = MaxAge + 1

\* what load_cookies(p, max_age_days=7) returns after the step
LoadedAfter(p) == (load_cookies(cookies_cache, p, MaxAgeDays))'

\* every platform but p keeps its entry in the step
OthersKept(p) == \A q \in DOMAIN cookies_cache \ {p} : cookies_cache'[q] = cookies_cache[q]

\* C23 as stated: a save of b for p makes load return b, over an earlier
\* entry too; a clear of p makes load return nothing; both leave the entry
\* of every other platform as it was.
C23_SaveLoadClear ==
    [][/\ \A p \in CookiePlatforms, b \in SavedBlobs :
             http_save_cookies(p, b, TRUE) => LoadedAfter(p) = Some(b) /\ OthersKept(p)
       /\ \A p \in CookiePlatforms :
             clear_platform_cookies(p) => LoadedAfter(p) = None /\ OthersKept(p)]_vars

\* C23 amended: the same for cookies that are not empty; after a save of the
\* empty string load returns nothing.
C23_SaveLoadClearNonEmpty ==
    [][/\ \A p \in CookiePlatforms, b \in SavedBlobs :
             http_save_cookies(p, b, TRUE) =>
                 /\ LoadedAfter(p) = IF b = "" THEN None ELSE Some(b)
                 /\ OthersKept(p)
       /\ \A p \in CookiePlatforms :
             clear_platform_cookies(p) => LoadedAfter(p) = None /\ OthersKept(p)]_vars

\* a second save has replaced the entry of one platform while another
\* platform holds an entry
C23_SavedTwice ==
    \E p, q \in CookiePlatforms :
        /\ p # q /\ reply = "cookies saved"
        /\ cookies_cache[q] # None /\ cookies_cache[q][1].saved_time = 0
        /\ cookies_cache[p] # None /\ cookies_cache[p][1].saved_time = MaxAge
        /\ cookies_cache[p][1].cookies = "c=3"

\* the entry of the task's platform, when it is no older than seven days
FreshEntry(task) ==
    LET p == get_platform_string(task.platform)
    IN IF cookies_cache[p] # None /\ now - cookies_cache[p][1].saved_time <= MaxAge
       THEN Some(cookies_cache[p][1].cookies) ELSE None

\* the route and the command builder evict the platform's entry of a task
\* that asks for it, and the command then has no --cookies
ClearedAtLaunch ==
    /\ \A req \in TaskRequests :
          (~Rejected(req) /\ req.clear_cookies /\ create_crawler_task(req)) =>
              cookies_cache'[get_platform_string(req.platform)] = None
    /\ \A u \in Units :
          (units[u].task.clear_cookies /\ unit_start(u)) =>
              /\ cookies_cache'[get_platform_string(units[u].task.platform)] = None
              /\ units'[u].cmd_cookies = None

\* C24 as stated: a launch with clear_cookies evicts the entry and passes no
\* --cookies; any other launch passes the cookies of the platform's entry
\* exactly when the entry is no older than seven days, and keeps the cache.
C24_LaunchUsesFreshEntry ==
    [][/\ ClearedAtLaunch
       /\ \A u \in Units :
             (~units[u].task.clear_cookies /\ unit_start(u)) =>
                 /\ units'[u].cmd_cookies = FreshEntry(units[u].task)
                 /\ cookies_cache' = cookies_cache]_vars

\* C24 amended: any other launch passes the cookies of the platform's entry
\* exactly when the entry is no older than seven days and its cookies are
\* not empty.
C24_LaunchUsesFreshNonEmptyEntry ==
    [][/\ ClearedAtLaunch
       /\ \A u \in Units :
             (~units[u].task.clear_cookies /\ unit_start(u)) =>
                 /\ units'[u].cmd_cookies =
                       IF FreshEntry(units[u].task) = Some("") THEN None
                       ELSE FreshEntry(units[u].task)
                 /\ cookies_cache' = cookies_cache]_vars

\* a job was launched with cookies saved exactly seven days before
C24_LaunchedWithCookies ==
    \E u \in Units :
        LET p == get_platform_string(units[u].task.platform)
        IN /\ units[u].pc = "spawn" /\ units[u].cmd_cookies # None
           /\ cookies_cache[p] # None /\ now - cookies_cache[p][1].saved_time = MaxAge

(* ===================== progress reported by a job ======================== *)
\* the counts a crawler prints in its "crawled X/Y" lines
Completed == {0, 3, 7}
Totals == {0, 5}

StartLine == <<W("kaishi"), W("paqu")>>                 \* 开始爬取
RatioLine(x, y) == <<W("yi"), W("paqu"), SP, N(x), W("/"), N(y)>>   \* 已爬取 x/y
SavedLine == <<W("baocun"), W("wancheng")>>             \* 保存完成

ErrorLine == <<W("wangluo"), W("cuowu")>>                \* 网络错误
LoginErrorLine == <<W("kaishi"), W("denglu"), W("shibai")>>   \* 开始登录失败
PlainLine == <<W("INFO"), SP, N(7)>>                     \* INFO 7
KeywordLine == <<W("guanjianci"), SP, W("a")>>           \* 关键词 a

ProgressLines ==
    {StartLine, SavedLine, <<W("kaishi"), W("denglu")>>,
     <<W("baocun"), SP, N(42), SP, W("tiao")>>,
     ErrorLine, LoginErrorLine, PlainLine, KeywordLine}
        \cup {RatioLine(x, y) : x \in Completed, y \in Totals}

\* one search job and the lines its process prints
ProgressNext ==
    \/ \E kw \in QuickKeywords : quick_search("xhs", kw)
    \/ \E u \in Units : unit_start(u)
    \/ \E u \in Units : spawn_ok(u)
    \/ \E u \in Units, line \in ProgressLines : read_stdout(u, line)
    \/ \E u \in Units : stdout_closed(u)
    \/ \E u \in Units : stderr_closed(u)
    \/ \E u \in Units, rc \in ReturnCodes, art \in Artifacts, ok \in BOOLEAN :
          process_exit(u, rc, art, ok)

ProgressSpec == LoginInit /\ [][ProgressNext]_vars

InRange(pct, lo, hi) == lo * pct.den <= pct.num /\ pct.num <= hi * pct.den

\* C25: in every reachable state the percent of every progress snapshot, the
\* current one and the ones recorded in the journal, is within [0, 100].
C25_PercentInRange ==
    \A id \in DOMAIN task_loggers :
        /\ InRange(task_loggers[id].progress.progress_percent, 0, 100)
        /\ \A i \in 1..Len(task_loggers[id].events) :
              InRange(task_loggers[id].events[i].progress.progress_percent, 0, 100)

\* a job reports 7 of 5 items, and later that saving is complete
C25_OverfullThenSaved ==
    \E id \in DOMAIN task_loggers :
        /\ task_loggers[id].progress.items_completed = 7
        /\ task_loggers[id].progress.items_total = 5
        /\ task_loggers[id].progress.progress_percent = Pct(100)

\* the step is: the process of unit u, having printed exactly the lines
\* before, exits with code rc
ExitsAfter(u, before, rc) ==
    /\ units[u].pc = "wait" /\ units[u].stdout_lines = before
    /\ units'[u].pc = "done" /\ units'[u].returncode = rc

\* C26: a search job whose process prints "开始爬取", "已爬取 3/5" and
\* "保存完成" and exits with code 0 has items_completed = 3 and items_total = 5
\* after the second line, and ends with stage "completed", percent 100 and a
\* stored result with success = true.
C26_ThreeLineJobSucceeds ==
    [][\A u \in Units :
          /\ (/\ units[u].pc = "read" /\ units[u].stdout_lines = <<StartLine>>
              /\ units'[u].stdout_lines = <<StartLine, RatioLine(3, 5)>>)
                 => /\ task_loggers'[IdOf(u)].progress.items_completed = 3
                    /\ task_loggers'[IdOf(u)].progress.items_total = 5
          /\ ExitsAfter(u, <<StartLine, RatioLine(3, 5), SavedLine>>, 0)
                 => /\ task_loggers'[IdOf(u)].progress.current_stage = "completed"
                    /\ task_loggers'[IdOf(u)].progress.progress_percent = Pct(100)
                    /\ task_results'[IdOf(u)].v.success = TRUE]_vars

\* the process has printed the three lines and both streams are closed
C26_ThreeLinesRead ==
    \E u \in Units :
        /\ units[u].pc = "wait"
        /\ units[u].stdout_lines = <<StartLine, RatioLine(3, 5), SavedLine>>
        /\ task_loggers[IdOf(u)].progress.current_stage = "completed"

\* the step is: unit u reads the line "已爬取 x/y"
ReadsRatio(u, x, y) ==
    /\ units[u].pc = "read"
    /\ units'[u].stdout_lines = Append(units[u].stdout_lines, RatioLine(x, y))

\* pct = min(40 + (x / y) * 50, 90), y > 0
IsRatioPercent(pct, x, y) ==
    IF x <= y THEN pct.num * y = (40 * y + 50 * x) * pct.den
    ELSE pct.num = 90 * pct.den

\* C30: reading a line "已爬取 X/Y" with Y > 0 sets percent to
\* min(40 + (X/Y)*50, 90), a value within [40, 90], items_total to Y and
\* items_completed to X; reading one with Y = 0 changes neither the snapshot
\* nor the journal.
C30_RatioLine ==
    [][\A u \in Units, x \in Completed, y \in Totals :
          ReadsRatio(u, x, y) =>
             LET lg == task_loggers'[IdOf(u)]
             IN IF y > 0
                THEN /\ IsRatioPercent(lg.progress.progress_percent, x, y)
                     /\ InRange(lg.progress.progress_percent, 40, 90)
                     /\ lg.progress.items_total = y
                     /\ lg.progress.items_completed = x
                ELSE lg = task_loggers[IdOf(u)]]_vars

\* a job has read "已爬取 3/5" and then "已爬取 7/0"
C30_ZeroTotalAfterRatio ==
    \E u \in Units :
        /\ units[u].pc = "read"
        /\ units[u].stdout_lines = <<RatioLine(3, 5), RatioLine(7, 0)>>
        /\ task_loggers[IdOf(u)].progress.items_completed = 3

(* ========================= retention of results ========================== *)
\* C27: the retention cleanup keeps the most recent 100 results: nothing is
\* removed while at most 100 results are held, at most 100 remain after a
\* removal, and no removed result is of a job that finished later than a
\* retained one.  The results held at the start are of jobs that finished
\* before any job submitted afterwards.
C27_CleanupKeepsNewest ==
    [][LET gone == DOMAIN task_results \ DOMAIN task_results'
       IN /\ Cardinality(DOMAIN task_results) <= KeepResults => gone = {}
          /\ gone # {} => Cardinality(DOMAIN task_results') <= KeepResults
          /\ \A id \in gone, kept \in DOMAIN task_results' :
                ~(id \in FreshIds /\ kept \in HistoryIds)]_vars

\* the process of a job submitted after the start has exited, and the
\* job's result is no longer held
C27_NewestResultRemoved ==
    \E u \in Units :
        /\ Done(u) /\ units[u].returncode \in ReturnCodes
        /\ IdOf(u) \in FreshIds /\ IdOf(u) \notin DOMAIN task_results

(* ===================== the status connection (WebSocket) ================= *)
\* ids a client connects for
ChannelIds == LoginIds \cup {UnknownLoginId}

\* websocket_login_status up to the loop: await websocket.accept()
websocket_accept(task_id) ==
    /\ channel.pc = "none"
    /\ channel' = [NoChannel EXCEPT !.pc = "loop", !.task_id = task_id, !.wake_at = now]
    /\ UNCHANGED <<sessions, monitors, cookie_files, login_reply, now, cookies_cache>>
    /\ UNCHANGED job_vars

\* one turn of the loop up to "await websocket.send_json": an unknown id is
\* answered with an error and the connection is closed; otherwise the status
\* of the session is sent.  A send that raises ends in "finally: close()".
websocket_push(send_ok) ==
    /\ channel.pc = "loop" /\ now >= channel.wake_at
    /\ channel' =
          IF ~send_ok THEN [channel EXCEPT !.pc = "closed"]
          ELSE IF ~HasSession(channel.task_id)
          THEN [channel EXCEPT !.pc = "closed", !.sent = "error"]
          ELSE [channel EXCEPT !.pc = "sent", !.sent = sessions[channel.task_id].status,
                               !.session = None]
    /\ UNCHANGED <<sessions, monitors, cookie_files, login_reply, now, cookies_cache>>
    /\ UNCHANGED job_vars

\* the session object the connection read for the send in progress
ChannelSession == IF channel.session = None THEN sessions[channel.task_id]
                  ELSE channel.session[1]

\* the turn after send_json returned: the connection is closed when the
\* status of the session object is terminal, else the loop sleeps
websocket_after_send ==
    /\ channel.pc = "sent"
    /\ channel' =
          IF ChannelSession.status \in TerminalStatus
          THEN [channel EXCEPT !.pc = "closed", !.session = None]
          ELSE [channel EXCEPT !.pc = "loop", !.session = None,
                               !.wake_at = now + PollInterval]
    /\ UNCHANGED <<sessions, monitors, cookie_files, login_reply, now, cookies_cache>>
    /\ UNCHANGED job_vars

\* a login session, the calls of its client, and one status connection
ChannelNext ==
    \/ \E req \in CreateLoginSessionRequests : http_create_login_session(req)
    \/ \E id \in LoginIds, init_ok \in BOOLEAN, nav_ok \in BOOLEAN :
          start_login_process(id, init_ok, nav_ok)
    \/ \E id \in ChannelIds : get_login_status(id)
    \/ \E m \in 1..MaxMonitors : monitor_begin(m)
    \/ \E m \in 1..MaxMonitors, write_ok \in BOOLEAN : monitor_poll(m, write_ok)
    \/ \E id \in ChannelIds : websocket_accept(id)
    \/ \E send_ok \in BOOLEAN : websocket_push(send_ok)
    \/ websocket_after_send
    \/ tick

\* the event loop runs every coroutine that is ready, and time passes; the
\* calls of the client are under no obligation
ChannelSpec ==
    /\ LoginInit /\ [][ChannelNext]_vars
    /\ WF_vars(tick)
    /\ WF_vars(\E m \in 1..MaxMonitors : monitor_begin(m))
    /\ WF_vars(\E m \in 1..MaxMonitors, write_ok \in BOOLEAN : monitor_poll(m, write_ok))
    /\ WF_vars(websocket_push(TRUE))
    /\ WF_vars(websocket_after_send)

ChannelOpen == channel.pc \in {"loop", "sent"}

\* no monitor is running for the session the table holds for the id
Unmonitored(task_id) ==
    \A m \in 1..Len(monitors) :
        ~(monitors[m].task_id = task_id /\ InTable(monitors[m]) /\ monitors[m].pc # "done")

\* the connection is open for a session that is past its timeout, is not in
\* a terminal status and has no monitor
OpenOnExpired ==
    /\ ChannelOpen /\ HasSession(channel.task_id)
    /\ sessions[channel.task_id].status \notin TerminalStatus
    /\ is_expired(sessions[channel.task_id])
    /\ Unmonitored(channel.task_id)

Matches(pats, line) == FirstMatch(pats, 1, line) # 0

\* the line holds one of 错误, 失败, 异常, Error, Exception (in any case)
HasErrorPhrase(line) ==
    \E i \in 1..Len(line) :
        /\ line[i].k = "w"
        /\ Fold(line[i].w) \in {"cuowu", "shibai", "yichang", "error", "exception"}

\* the step is: unit u reads the line
Reads(u, line) ==
    /\ units[u].pc = "read"
    /\ units'[u].stdout_lines = Append(units[u].stdout_lines, line)

\* C31: a line is handled by the first category it matches, in the order
\* login, crawl, save, error, noteworthy: a line with an error phrase that
\* matches no login, crawl or save pattern appends one error event and
\* leaves the snapshot as it was; a line with an error phrase that matches
\* a login pattern is handled as a login line; a line matching no category
\* changes neither snapshot nor journal.
C31_FirstCategoryHandles ==
    [][\A u \in Units, line \in ProgressLines :
          Reads(u, line) =>
             LET lg == task_loggers[IdOf(u)]
                 lg2 == task_loggers'[IdOf(u)]
                 earlier == \/ Matches(PatsOf(login_patterns), line)
                            \/ Matches(PatsOf(crawl_patterns), line)
                            \/ Matches(PatsOf(save_patterns), line)
                 error == HasErrorPhrase(line)
                 noteworthy == Matches(important_patterns, line)
             IN /\ (error /\ ~earlier) =>
                      /\ Len(lg2.events) = Len(lg.events) + 1
                      /\ SubSeq(lg2.events, 1, Len(lg.events)) = lg.events
                      /\ lg2.events[Len(lg2.events)].event_type = "crawler_error"
                      /\ lg2.progress = lg.progress
                /\ (error /\ Matches(PatsOf(login_patterns), line)) =>
                      /\ lg2.progress.current_stage = "logging_in"
                      /\ \A i \in (Len(lg.events) + 1)..Len(lg2.events) :
                            lg2.events[i].event_type # "crawler_error"
                /\ (~earlier /\ ~error /\ ~noteworthy) => lg2 = lg]_vars

\* a job has read a login line with an error phrase, an error line and a
\* line of no category
C31_ThreeKindsRead ==
    \E u \in Units :
        /\ units[u].pc = "read"
        /\ units[u].stdout_lines = <<LoginErrorLine, ErrorLine, PlainLine>>

(* ========================= draining of the streams ======================= *)
TerminalEvents == {"task_completed", "task_failed"}

HasTerminalEvent(lg) == \E i \in 1..Len(lg.events) : lg.events[i].event_type \in TerminalEvents

\* the process of unit u runs, the unit was not cancelled, and a stream of
\* the process is not yet at end of file
Draining(u) ==
    /\ units[u].pc \in {"read", "wait"} /\ ~units[u].must_cancel
    /\ ~(units[u].stdout_eof /\ units[u].stderr_eof)

RequestFlags ==
    { DefaultFlags,
      [DefaultFlags EXCEPT !.headless = FALSE, !.enable_proxy = TRUE,
                           !.max_comments = 20, !.save_data_option = "json"] }

\* the config member of a request body: absent, present with nothing set, or
\* present with some fields set
RequestConfigs ==
    { None,
      Some(EmptyConfigRequest),
      Some([EmptyConfigRequest EXCEPT !.headless = Some(FALSE),
                                      !.max_comments = Some(10),
                                      !.save_data_option = Some("csv")]),
      Some([EmptyConfigRequest EXCEPT !.timeout = Some(60),
                                      !.enable_proxy = Some(TRUE)]) }

\* request bodies for POST /api/v1/tasks whose target set is populated
CommandRequests ==
    { [CrawlerTask(0, p, t,
                   IF t = "search" THEN Some(<<"a", "b">>) ELSE None,
                   IF t = "detail" THEN Some(<<"n1", "n2">>) ELSE None,
                   IF t = "creator" THEN Some(<<"c1", "c2">>) ELSE None,
                   FALSE) EXCEPT !.flags = f, !.config = c] :
        p \in PLATFORM_MAPPING, t \in CrawlerTaskType, f \in RequestFlags, c \in RequestConfigs }

CommandNext ==
    \/ \E req \in CommandRequests : create_crawler_task(req)
    \/ \E u \in Units : unit_start(u)
    \/ \E u \in Units : spawn_ok(u)

CommandSpec == LoginInit /\ [][CommandNext]_vars

Prepared(u) == units[u].cmd # None /\ units[u].final_config # None

\* the value of field k after the four layers: a field the caller's config
\* sets, else the environment's, else the platform's, else the default
LayeredField(task, k) ==
    LET env == get_env_config_overrides(Settings)
    IN IF task.config # None /\ k \in DOMAIN task.config[1] /\ task.config[1][k] # None
       THEN task.config[1][k][1]
       ELSE IF k \in DOMAIN env THEN env[k]
       ELSE IF task.platform \in DOMAIN platform_configs
               /\ k \in DOMAIN platform_configs[task.platform]
       THEN platform_configs[task.platform][k]
       ELSE BaseConfig(task.platform)[k]

\* C33: the effective configuration of a job is, field by field, the built-in
\* default overridden by the platform's default, then by the environment's
\* override, then by the caller's config override, each only where it is set.
C33_EffectiveConfigIsLayered ==
    \A u \in Units :
        Prepared(u) =>
            \A k \in DOMAIN units[u].final_config[1] :
                units[u].final_config[1][k] = LayeredField(units[u].task, k)

\* a job on xhs submitted with no config and no flag: its effective
\* max_comments is the flag's default, not the platform's default
C33_PlatformDefaultLost ==
    \E u \in Units :
        /\ Prepared(u)
        /\ units[u].task.platform = "xhs"
        /\ units[u].task.config = None
        /\ units[u].task.flags = DefaultFlags
        /\ units[u].final_config[1].max_comments = 50
        /\ platform_configs["xhs"].max_comments = 100

\* C34: the values passed as --headless, --enable_proxy, --max_comments and
\* --save_data_option are those of the job's effective configuration.
C34_ArgumentsFollowEffectiveConfig ==
    \A u \in Units :
        Prepared(u) =>
            LET cmd == units[u].cmd[1]
                final == units[u].final_config[1]
            IN /\ cmd.headless = (IF final.headless THEN "true" ELSE "false")
               /\ cmd.enable_proxy = (IF final.enable_proxy THEN "true" ELSE "false")
               /\ cmd.max_comments = final.max_comments
               /\ cmd.save_data_option = final.save_data_option

\* a job whose config sets headless to false is launched with --headless true
C34_OverrideNotInArguments ==
    \E u \in Units :
        /\ Prepared(u)
        /\ units[u].task.config # None
        /\ units[u].task.config[1].headless = Some(FALSE)
        /\ units[u].final_config[1].headless = FALSE
        /\ units[u].cmd[1].headless = "true"

\* the populated target set of a task and the separator of its job type
TargetIds(task) ==
    CASE task.task_type = "search" -> task.keywords[1]
      [] task.task_type = "detail" -> task.content_ids[1]
      [] OTHER -> task.creator_ids[1]

Separator(task) == IF task.task_type = "search" THEN "," ELSE ";"

\* C39: for every supported platform and every job type whose target set is
\* populated, the arguments carry the target set: --keywords joined by ","
\* for search, an identifier flag with the ids joined by ";" otherwise.
C39_ArgumentsCarryTargets ==
    \A u \in Units :
        Prepared(u) =>
            LET task == units[u].task
                target == units[u].cmd[1].target
            IN /\ target # None
               /\ task.task_type = "search" => target[1][1] = "--keywords"
               /\ target[1][2] = Join(TargetIds(task), Separator(task))

\* a detail job on tieba is launched with no identifier argument
C39_TiebaDetailWithoutIds ==
    \E u \in Units :
        /\ Prepared(u)
        /\ units[u].task.platform = "tieba"
        /\ units[u].task.task_type = "detail"
        /\ units[u].task.content_ids = Some(<<"n1", "n2">>)
        /\ units[u].cmd[1].target = None

(* --------------------- expiry of a phone session ------------------------ *)
\* C35: the stored status of a phone session becomes timeout only in a step
\* that reads the status of that session; no monitor step, no passing of
\* time and no other request does it.
C35_OnlyStatusReadExpiresPhone ==
    [][\A id \in LoginIds :
          (/\ HasSession(id) /\ sessions[id].login_type = "phone"
           /\ sessions[id].status # "timeout"
           /\ id \in DOMAIN sessions' /\ sessions'[id].status = "timeout")
          => get_login_status(id)]_vars

\* a phone session that is long expired and still not in a terminal status
C35_ExpiredPhoneStillOpen ==
    \E id \in LoginIds :
        /\ HasSession(id) /\ sessions[id].login_type = "phone"
        /\ is_expired(sessions[id]) /\ now = MaxTime
        /\ sessions[id].status \notin TerminalStatus

(* ------------------ a monitor and the session of its id ----------------- *)
\* the monitor holds a session that the table no longer holds under its id
HoldsOther(m) ==
    /\ m \in 1..Len(monitors) /\ ~InTable(monitors[m])
    /\ HasSession(monitors[m].task_id)

\* C36: a step of a monitor whose session is not the one the table holds
\* under the id changes neither the status nor the cookies of the session
\* that the table holds.
C36_MonitorLeavesOtherSession ==
    [][\A m \in 1..MaxMonitors, ok \in BOOLEAN :
          (HoldsOther(m) /\ (monitor_begin(m) \/ monitor_poll(m, ok)))
          => /\ sessions'[monitors[m].task_id].status = sessions[monitors[m].task_id].status
             /\ sessions'[monitors[m].task_id].cookies_data
                   = sessions[monitors[m].task_id].cookies_data]_vars

\* a session that was never started has status success and the cookies the
\* monitor of the session it replaced extracted
C36_NewSessionGotOldLogin ==
    \E m \in 1..Len(monitors) :
        /\ HoldsOther(m) /\ monitors[m].pc = "done"
        /\ ~sessions[monitors[m].task_id].browser
        /\ sessions[monitors[m].task_id].status = "success"
        /\ sessions[monitors[m].task_id].cookies_data = Some(ExtractedCookies)

(* ------------------- a job under an id that is known -------------------- *)
\* ids of jobs held from before, given to start_crawler_task again
KnownIds == {10, 10 * Preloaded}

\* the tasks submitted under them
KnownIdTasks ==
    { CrawlerTask(0, "xhs", "search", Some(<<"a">>), None, None, FALSE),
      CrawlerTask(0, "douyin", "detail", None, Some(<<"n1">>), None, FALSE) }

\* MediaCrawlerAdapter.start_crawler_task called with a task whose id the
\* adapter already knows
start_known_task(id, task) ==
    /\ id \in DOMAIN task_loggers /\ HasFree
    /\ start_crawler_task([task EXCEPT !.task_id = id])
    /\ UNCHANGED <<cookies_cache, reply>>
    /\ UNCHANGED login_vars

ResubmitNext ==
    \/ \E id \in KnownIds, task \in KnownIdTasks : start_known_task(id, task)
    \/ \E u \in Units : unit_start(u)
    \/ \E u \in Units : spawn_ok(u)
    \/ \E u \in Units, line \in StdoutLines : read_stdout(u, line)
    \/ \E u \in Units : stdout_closed(u)
    \/ \E u \in Units, line \in StderrLines : read_stderr(u, line)
    \/ \E u \in Units : stderr_closed(u)
    \/ \E u \in Units, rc \in ReturnCodes, art \in Artifacts, ok \in BOOLEAN :
          process_exit(u, rc, art, ok)
    \/ \E id \in KnownIds : stop_task(id)
    \/ \E u \in Units : cancelled(u)
    \/ \E u \in Units : stop_task_resumes(u)

ResubmitSpec == Init /\ [][ResubmitNext]_vars

\* C37: a step that submits a job under a known id keeps the events of the
\* journal the id has, and keeps the execution handle the id has.
C37_KnownIdJobUndisturbed ==
    [][\A id \in KnownIds, task \in KnownIdTasks :
          start_known_task(id, task)
          => /\ LET old == task_loggers[id].events
                    new == task_loggers'[id].events
                IN Len(old) <= Len(new) /\ SubSeq(new, 1, Len(old)) = old
             /\ id \in DOMAIN running_tasks => running_tasks'[id] = running_tasks[id]]_vars

\* the journal of a job held from before starts with the events of the job
\* submitted under its id later
C37_JournalReplaced ==
    \E u \in Units :
        /\ units[u].pc # "none" /\ IdOf(u) \in KnownIds
        /\ units[u].task.platform = "douyin"
        /\ IdOf(u) \in DOMAIN task_results /\ task_results[IdOf(u)] = StoppedResult(IdOf(u))
        /\ LoggerOf(u).events[1] # HistoryLogger.events[1]

(* --------------------------- the running list --------------------------- *)
\* MediaCrawlerAdapter.list_running_tasks: list(self.running_tasks.keys())
list_running_tasks == DOMAIN running_tasks

\* the running count of MediaCrawlerAdapter.get_system_stats
running_count == Cardinality(DOMAIN running_tasks)

\* the ids of the jobs whose execution unit has not finished
UnfinishedIds == {IdOf(u) : u \in {v \in Units : units[v].pc \notin {"none", "done"}}}

\* C38: the running list holds exactly the ids of the jobs whose unit has
\* not finished, and the running count is their number.
C38_RunningListIsUnfinished ==
    /\ list_running_tasks = UnfinishedIds
    /\ running_count = Cardinality(UnfinishedIds)

\* a job's process has exited, its result is stored, nobody is stopping it,
\* and the job is listed as running
C38_FinishedJobListed ==
    \E u \in Units :
        /\ Done(u) /\ units[u].returncode = 0 /\ waiters[u] = 0
        /\ IdOf(u) \in DOMAIN task_results
        /\ IdOf(u) \in list_running_tasks /\ running_count = 1

(* ------------------------ the end of a journal -------------------------- *)
\* the event types that end a job (TaskEventType)
JobEndEvents == {"task_completed", "task_failed", "task_stopped"}

\* the positions of the journal's events of the given types
EventsOf(lg, types) == {i \in 1..Len(lg.events) : lg.events[i].event_type \in types}

\* the jobs that have finished: their result is stored
FinishedIds == DOMAIN task_results \cap DOMAIN task_loggers

\* C40: the journal of a finished job holds exactly one event that ends a
\* job, task_completed if the result is a success and task_failed or
\* task_stopped if not; and no step appends an end or progress event to the
\* journal of a finished job.
C40_OneTerminalEvent ==
    /\ [](\A id \in FinishedIds :
             /\ Cardinality(EventsOf(task_loggers[id], JobEndEvents)) = 1
             /\ \A i \in EventsOf(task_loggers[id], JobEndEvents) :
                   task_results[id].v.success
                      <=> task_loggers[id].events[i].event_type = "task_completed")
    /\ [][\A id \in FinishedIds :
             id \in DOMAIN task_loggers'
             => \A i \in EventsOf(task_loggers'[id], JobEndEvents \cup {"task_progress"}) :
                   i <= Len(task_loggers[id].events)]_vars

\* a job stopped while it was running: its result is the stopped result, and
\* its journal holds no event that ends a job
C40_StoppedWithoutEvent ==
    \E u \in Units :
        /\ Done(u) /\ units[u].outcome = "cancelled" /\ waiters[u] = 0
        /\ IdOf(u) \in FinishedIds /\ task_results[IdOf(u)] = StoppedResult(IdOf(u))
        /\ units[u].returncode = -1
        /\ EventsOf(LoggerOf(u), JobEndEvents) = {}

====
